---- MODULE Spec2Model ----
(***************************************************************************)
(* Model of the request-scoped caching and SQL-validation pipeline of the  *)
(* analytics chat tool: the SQL validator, the cache-key derivation, the   *)
(* cache adapter, the NL->SQL generator, the query executor and the two    *)
(* HTTP handlers (analytics and chat).                                     *)
(*                                                                         *)
(* Text is a sequence of chunks.  A chunk is a run of characters that the  *)
(* code's string operations (trim, toLowerCase, the regular expressions)   *)
(* treat as a unit: a keyword, a comment delimiter, a separator, a blank.  *)
(* The alphabets are chosen so that no keyword or delimiter arises from    *)
(* the concatenation of two chunks.                                        *)
(***************************************************************************)
EXTENDS Integers, Sequences, FiniteSets, TLC

VARIABLES
    vIn,      \* validateSQL: the sql text under validation
    vOut,     \* validateSQL: its result {valid, error}
    vDone,    \* validateSQL: whether the result has been computed
    kIn,      \* key derivation: the question
    kOut,     \* key derivation: the keys derived from kIn and from its
              \* trimmed, upper-cased form, by each route's helper
    kDone,    \* key derivation: whether the keys have been computed
    cache,    \* the remote key-value store: key -> stored entry
    lastCacheEvent,  \* history: the last operation that changed the store
    req,      \* the requests in flight: request id -> handler state
    uIn,      \* a single call of a helper: its arguments
    uOut,     \* a single call of a helper: what it returned
    uDone,    \* a single call of a helper: whether it has returned
    clr,      \* the clear-all request (DELETE) in flight
    one,      \* the clear-one request (POST /api/clear-cache) in flight
    now,      \* the store's clock, in seconds
    written   \* history: key -> the time of the last completed write to it
              \* that no delete has followed

validateVars == <<vIn, vOut, vDone>>
keyVars == <<kIn, kOut, kDone>>
handlerVars == <<cache, lastCacheEvent, req>>
unitVars == <<uIn, uOut, uDone>>
clearVars == <<clr>>
oneVars == <<one>>
timeVars == <<now, written>>
vars == <<validateVars, keyVars, handlerVars, unitVars, clearVars, oneVars, timeVars>>

(***************************************************************************)
(* Bounds of the model.                                                    *)
(***************************************************************************)
MaxSqlLen == 5
MaxQuestionLen == 3
MaxKeyPartLen == 2
MaxStatementLen == 4
MaxCursor == 2

(***************************************************************************)
(* Text helpers: String.prototype.toLowerCase / trim on chunk sequences.   *)
(***************************************************************************)
\* toLowerCase on one chunk; chunks without cased letters map to themselves.
LowerChunk(c) ==
    CASE c = "SELECT" -> "select"
      [] c = "WITH" -> "with"
      [] c = "DROP TABLE x" -> "drop table x"
      [] c = "UNION" -> "union"
      [] c = "EXEC(" -> "exec("
      [] c = "A" -> "a"
      [] c = "SS" -> "ss"
      [] c = "HI" -> "hi"
      [] c = "TOTAL ORDERS" -> "total orders"
      [] OTHER -> c

toLowerCase(s) == [i \in 1..Len(s) |-> LowerChunk(s[i])]

\* toUpperCase on one chunk.  The chunk "sharp s" is the one letter U+00DF:
\* it has no single upper-case letter and becomes the two letters SS, which
\* toLowerCase turns into ss.
UpperChunk(c) ==
    CASE c = "a" -> "A"
      [] c = "ss" -> "SS"
      [] c = "sharp s" -> "SS"
      [] c = "hi" -> "HI"
      [] c = "total orders" -> "TOTAL ORDERS"
      [] OTHER -> c

toUpperCase(s) == [i \in 1..Len(s) |-> UpperChunk(s[i])]

\* The chunks String.prototype.trim removes at both ends.
IsSpace(c) == c \in {" ", "\n"}

RECURSIVE TrimStart(_)
TrimStart(s) ==
    IF s # <<>> /\ IsSpace(Head(s)) THEN TrimStart(Tail(s)) ELSE s

RECURSIVE TrimEnd(_)
TrimEnd(s) ==
    IF s # <<>> /\ IsSpace(s[Len(s)]) THEN TrimEnd(SubSeq(s, 1, Len(s) - 1)) ELSE s

trim(s) == TrimEnd(TrimStart(s))

(***************************************************************************)
(* validateSQL (sql-generator): comment stripping, blocklist, prefix.      *)
(***************************************************************************)
\* .replace(/--.*$/gm, ''): from each "--" up to, not including, the next
\* line break (or the end of the text).  inComment: inside a line comment.
RECURSIVE StripLine(_, _)
StripLine(s, inComment) ==
    IF s = <<>> THEN <<>>
    ELSE IF inComment
         THEN IF Head(s) = "\n" THEN <<"\n">> \o StripLine(Tail(s), FALSE)
                                ELSE StripLine(Tail(s), TRUE)
         ELSE IF Head(s) = "--" THEN StripLine(Tail(s), TRUE)
                                ELSE <<Head(s)>> \o StripLine(Tail(s), FALSE)

stripLineComments(s) == StripLine(s, FALSE)

\* Index of the first "*/" in s, 0 when there is none.
RECURSIVE FirstClose(_, _)
FirstClose(s, i) ==
    IF i > Len(s) THEN 0
    ELSE IF s[i] = "*/" THEN i ELSE FirstClose(s, i + 1)

\* .replace(/\/\*[\s\S]*?\*\//g, ''): each "/*" with the nearest following
\* "*/" is removed; an unterminated "/*" stays.
RECURSIVE stripBlockComments(_)
stripBlockComments(s) ==
    IF s = <<>> THEN <<>>
    ELSE IF Head(s) = "/*" /\ FirstClose(s, 2) # 0
         THEN stripBlockComments(SubSeq(s, FirstClose(s, 2) + 1, Len(s)))
         ELSE <<Head(s)>> \o stripBlockComments(Tail(s))

\* Chunks that begin with drop|delete|update|insert|alter|create|truncate|
\* grant|revoke.
IsWriteKeyword(c) == c \in {"drop table x"}

\* /;\s*(drop|delete|update|insert|alter|create|truncate|grant|revoke)/i
MatchesSeparatorWrite(s) ==
    \E i \in 1..Len(s) : \E j \in (i + 1)..Len(s) :
        /\ s[i] = ";"
        /\ IsWriteKeyword(LowerChunk(s[j]))
        /\ \A k \in (i + 1)..(j - 1) : IsSpace(s[k])

\* /union.*select/i: "." does not match a line break.
MatchesUnionSelect(s) ==
    \E i \in 1..Len(s) : \E j \in (i + 1)..Len(s) :
        /\ LowerChunk(s[i]) = "union"
        /\ LowerChunk(s[j]) = "select"
        /\ \A k \in (i + 1)..(j - 1) : s[k] # "\n"

\* /exec\(/i and /execute\(/i
MatchesExec(s) == \E i \in 1..Len(s) : LowerChunk(s[i]) \in {"exec(", "execute("}

startsWith(s, c) == s # <<>> /\ Head(s) = c

validateSQL(sql) ==
    LET normalizedSQL == toLowerCase(trim(sql))
        sqlWithoutComments == stripBlockComments(stripLineComments(normalizedSQL))
    IN  IF \/ MatchesSeparatorWrite(sqlWithoutComments)
           \/ MatchesUnionSelect(sqlWithoutComments)
           \/ MatchesExec(sqlWithoutComments)
        THEN [valid |-> FALSE, error |-> "SQL contains potentially dangerous operations"]
        ELSE IF ~startsWith(trim(sqlWithoutComments), "select")
        THEN [valid |-> FALSE, error |-> "Only SELECT queries are allowed"]
        ELSE [valid |-> TRUE, error |-> ""]

(***************************************************************************)
(* Cache keys.                                                             *)
(***************************************************************************)
\* crypto.createHash('sha256').update(t).digest('hex'): a collision-free
\* digest of the text it is given.
sha256hex(t) == <<"sha256", t>>

\* Buffer.from(t).toString('base64'): an injective encoding of the text.
base64(t) == <<"base64", t>>

\* A key derivation that forgets to lower-case the question.
generateCacheKey_NoLower(question) ==
    <<"query:", sha256hex(trim(question))>>

\* generateCacheKey of the analytics route.
generateCacheKey(question) ==
    <<"query:", sha256hex(trim(toLowerCase(question)))>>

\* generateQueryCacheKey of the chat route.
generateQueryCacheKey(question) ==
    <<"query:", sha256hex(trim(toLowerCase(question)))>>

\* An optional string argument: given with a text, or left out (undefined).
Some(t) == [given |-> TRUE, text |-> t]
None == [given |-> FALSE, text |-> <<>>]

\* A chat key that leaves the context out.
generateChatCacheKey_NoContext(prompt, context) ==
    <<"chat:", base64(prompt)>>

\* generateChatCacheKey(prompt, context?): the test "context ?" fails for a
\* context that is left out and for the empty string.
generateChatCacheKey(prompt, context) ==
    LET baseString == IF context.given /\ context.text # <<>>
                      THEN prompt \o <<":">> \o context.text
                      ELSE prompt
    IN  <<"chat:", base64(baseString)>>

\* /^(hi|hello|hey|greetings|good morning|good afternoon|good evening|howdy)$/i
GreetingWords ==
    {"hi", "hello", "hey", "greetings", "good morning", "good afternoon",
     "good evening", "howdy"}

\* A pattern that matches nothing.
greetingRegex_Never(s) == FALSE

greetingRegex(s) == Len(s) = 1 /\ LowerChunk(s[1]) \in GreetingWords

\* A greeting test that takes every question for a greeting.
isGreetingRequest_Always(question) == TRUE

\* The handlers' test: the pattern on question.trim().
isGreetingRequest(question) == greetingRegex(trim(question))

(***************************************************************************)
(* Cache adapter (getCachedData / setCachedData).  io is what the remote   *)
(* store does with the call: "ok" serves it, "throw" fails in transport,   *)
(* "noop" silently does nothing (a get then yields null).                  *)
(***************************************************************************)
Null == [null |-> TRUE]
Undefined == [undefined |-> TRUE]

\* The outcomes under transport failures, and under a store that may ignore
\* every call.
TransportIO == {"ok", "throw"}
NoopIO == {"ok", "noop"}

DefaultTTL == 3600

\* Values.  null, numbers, booleans and objects are records of their own
\* shape; a string is [str |-> chunks] when its characters are no JSON text,
\* and [json |-> v] when its characters are the JSON text of the value v.
\* JSON.stringify(v) is the string that is the JSON text of v, and
\* JSON.parse of a string gives v back if the string is the JSON text of v,
\* and throws otherwise.
JSONstringify(v) == [json |-> v]
IsJsonText(s) == "json" \in DOMAIN s
JSONparse(e) == e.json
IsString(v) == "str" \in DOMAIN v \/ "json" \in DOMAIN v

\* redis.get(key): null when the key is not there; otherwise the stored text
\* deserialised by the client (io "ok", the client's default), or the stored
\* text itself (io "raw", a client that does not deserialise).
redisGet(store, key, io) ==
    IF io \in {"ok", "raw"} /\ key \in DOMAIN store
    THEN IF io = "ok" THEN JSONparse(store[key]) ELSE [json |-> store[key].json]
    ELSE Null

\* A test that only asks whether the value is defined (data !== undefined).
Truthy_NotUndefined(v) == v # Undefined

\* if (data): null, undefined, 0, false and the empty string are falsy,
\* every other value is truthy.
Truthy(v) ==
    v \notin {Null, Undefined, [num |-> 0], [bool |-> FALSE], [str |-> <<>>]}

\* What getCachedData returns for the truthy value data that redis.get gave:
\* a string is parsed, and returned as it is when parsing throws.
parsedIfString(data) ==
    IF IsString(data) /\ IsJsonText(data) THEN JSONparse(data) ELSE data

\* A getCachedData without its try/catch: the transport failure escapes.
getCachedData_NoCatch(store, key, io) ==
    IF io = "throw"
    THEN [threw |-> TRUE, message |-> <<<<"Redis get error">>>>, value |-> Null]
    ELSE [threw |-> FALSE, message |-> <<>>,
          value |-> IF Truthy(redisGet(store, key, io))
                    THEN parsedIfString(redisGet(store, key, io))
                    ELSE Null]

\* getCachedData: a transport failure is caught and answered with null.
getCachedData(store, key, io) ==
    IF io = "throw"
    THEN [threw |-> FALSE, message |-> <<>>, value |-> Null]
    ELSE [threw |-> FALSE, message |-> <<>>,
          value |-> IF Truthy(redisGet(store, key, io))
                    THEN parsedIfString(redisGet(store, key, io))
                    ELSE Null]

\* A write that leaves an entry that is already there as it is.
redisSetex_KeepFirst(store, key, ttl, text, io) ==
    IF io = "ok" /\ key \notin DOMAIN store
    THEN [k \in DOMAIN store \cup {key} |->
            IF k = key THEN [json |-> text.json, ttl |-> ttl] ELSE store[k]]
    ELSE store

\* redis.setex(key, ttl, JSON.stringify(data))
redisSetex(store, key, ttl, text, io) ==
    IF io = "ok"
    THEN [k \in DOMAIN store \cup {key} |->
            IF k = key THEN [json |-> text.json, ttl |-> ttl] ELSE store[k]]
    ELSE store

\* redis.del(key)
redisDel(store, key, io) ==
    IF io = "ok" THEN [k \in DOMAIN store \ {key} |-> store[k]] ELSE store

\* deleteCachedData: a transport failure is caught and swallowed.
deleteCachedData(store, key, io) ==
    [threw |-> FALSE, message |-> <<>>, store |-> redisDel(store, key, io)]

\* A setCachedData without its try/catch: the transport failure escapes.
setCachedData_NoCatch(store, key, data, ttl, io) ==
    [threw |-> io = "throw",
     message |-> IF io = "throw" THEN <<<<"Redis set error">>>> ELSE <<>>,
     store |-> redisSetex(store, key, ttl, JSONstringify(data), io)]

\* A setCachedData that asks the store for twice the time to live.
setCachedData_DoubleTtl(store, key, data, ttl, io) ==
    [threw |-> FALSE, message |-> <<>>,
     store |-> redisSetex(store, key, ttl + ttl, JSONstringify(data), io)]

\* setCachedData: a transport failure is caught and swallowed.
setCachedData(store, key, data, ttl, io) ==
    [threw |-> FALSE, message |-> <<>>,
     store |-> redisSetex(store, key, ttl, JSONstringify(data), io)]

(***************************************************************************)
(* NL->SQL generator (generateSQLFromQuestion).  llm is what the           *)
(* text-generation service answers if it is called.                        *)
(***************************************************************************)
\* Chunks that contain one of the dataKeywords (orders, total, ...).
HasDataKeyword(c) == c \in {"total orders"}

\* /(how many|how much|count|number of|total|sum|average|rows? in|records? in)/i
AsksForData(c) == LowerChunk(c) \in {"total orders"}

\* /^(what|who|when|where|why|how|explain|tell me|help|can you|...)/i
StartsGeneral(s) == s # <<>> /\ LowerChunk(Head(s)) \in {"what is this"}

endsWith(s, c) == s # <<>> /\ s[Len(s)] = c

\* Remove one trailing ";" and trim again.
cleanSQL(sql) ==
    IF endsWith(trim(sql), ";")
    THEN trim(SubSeq(trim(sql), 1, Len(trim(sql)) - 1))
    ELSE trim(sql)

GenResult(threw, message, sql, explanation, viz, called, checked) ==
    [threw |-> threw, message |-> message, sql |-> sql, explanation |-> explanation,
     visualizationType |-> viz, llmCalled |-> called, checked |-> checked]

\* A generator that returns the cleaned sql without validating it.
generateSQLFromQuestion_NoValidation(question, llm) ==
    LET lowerQuestion == trim(toLowerCase(question))
        isGreeting == greetingRegex(lowerQuestion)
        hasDataKeywords == \E i \in 1..Len(lowerQuestion) : HasDataKeyword(lowerQuestion[i])
        isAskingForData == \E i \in 1..Len(question) : AsksForData(question[i])
        isGeneralQuestion ==
            StartsGeneral(lowerQuestion) /\ ~hasDataKeywords /\ ~isAskingForData
        cleanedSQL == cleanSQL(llm.sql)
    IN  IF isGreeting \/ isGeneralQuestion
        THEN GenResult(FALSE, <<>>, <<>>,
                       IF isGreeting THEN "greeting help" ELSE "general help",
                       "table", FALSE, <<>>)
        ELSE IF llm.kind = "throw"
        THEN GenResult(TRUE, <<<<"Failed to generate SQL query: ">>, <<"service error">>>>,
                       <<>>, "", "", TRUE, <<>>)
        ELSE IF llm.kind = "unparsable"
        THEN GenResult(TRUE, <<<<"Failed to generate SQL query: ">>, <<"Invalid JSON response from Gemini">>>>,
                       <<>>, "", "", TRUE, <<>>)
        ELSE IF trim(llm.sql) = <<>>
        THEN GenResult(FALSE, <<>>, <<>>,
                       IF llm.explanation # "" THEN llm.explanation ELSE "default help",
                       "table", TRUE, <<>>)
        ELSE GenResult(FALSE, <<>>, cleanedSQL,
                       IF llm.explanation # "" THEN llm.explanation
                                               ELSE "Query executed successfully",
                       IF llm.visualizationType # "" THEN llm.visualizationType ELSE "table",
                       TRUE, <<>>)

\* A generator whose validation error quotes the rejected sql.
generateSQLFromQuestion_SqlInMessage(question, llm) ==
    LET lowerQuestion == trim(toLowerCase(question))
        isGreeting == greetingRegex(lowerQuestion)
        hasDataKeywords == \E i \in 1..Len(lowerQuestion) : HasDataKeyword(lowerQuestion[i])
        isAskingForData == \E i \in 1..Len(question) : AsksForData(question[i])
        isGeneralQuestion ==
            StartsGeneral(lowerQuestion) /\ ~hasDataKeywords /\ ~isAskingForData
        cleanedSQL == cleanSQL(llm.sql)
        validation == validateSQL(cleanedSQL)
    IN  IF isGreeting \/ isGeneralQuestion
        THEN GenResult(FALSE, <<>>, <<>>,
                       IF isGreeting THEN "greeting help" ELSE "general help",
                       "table", FALSE, <<>>)
        ELSE IF llm.kind = "throw"
        THEN GenResult(TRUE, <<<<"Failed to generate SQL query: ">>, <<"service error">>>>,
                       <<>>, "", "", TRUE, <<>>)
        ELSE IF llm.kind = "unparsable"
        THEN GenResult(TRUE, <<<<"Failed to generate SQL query: ">>, <<"Invalid JSON response from Gemini">>>>,
                       <<>>, "", "", TRUE, <<>>)
        ELSE IF trim(llm.sql) = <<>>
        THEN GenResult(FALSE, <<>>, <<>>,
                       IF llm.explanation # "" THEN llm.explanation ELSE "default help",
                       "table", TRUE, <<>>)
        ELSE IF ~validation.valid
        THEN GenResult(TRUE, <<<<"Failed to generate SQL query: ">>, <<validation.error>>,
                               cleanedSQL>>,
                       <<>>, "", "", TRUE, <<cleanedSQL>>)
        ELSE GenResult(FALSE, <<>>, cleanedSQL,
                       IF llm.explanation # "" THEN llm.explanation
                                               ELSE "Query executed successfully",
                       IF llm.visualizationType # "" THEN llm.visualizationType ELSE "table",
                       TRUE, <<cleanedSQL>>)

\* checked: the texts handed to validateSQL by this call.
generateSQLFromQuestion(question, llm) ==
    LET lowerQuestion == trim(toLowerCase(question))
        isGreeting == greetingRegex(lowerQuestion)
        hasDataKeywords == \E i \in 1..Len(lowerQuestion) : HasDataKeyword(lowerQuestion[i])
        isAskingForData == \E i \in 1..Len(question) : AsksForData(question[i])
        isGeneralQuestion ==
            StartsGeneral(lowerQuestion) /\ ~hasDataKeywords /\ ~isAskingForData
        cleanedSQL == cleanSQL(llm.sql)
        validation == validateSQL(cleanedSQL)
    IN  IF isGreeting \/ isGeneralQuestion
        THEN GenResult(FALSE, <<>>, <<>>,
                       IF isGreeting THEN "greeting help" ELSE "general help",
                       "table", FALSE, <<>>)
        ELSE IF llm.kind = "throw"
        THEN GenResult(TRUE, <<<<"Failed to generate SQL query: ">>, <<"service error">>>>,
                       <<>>, "", "", TRUE, <<>>)
        ELSE IF llm.kind = "unparsable"
        THEN GenResult(TRUE, <<<<"Failed to generate SQL query: ">>, <<"Invalid JSON response from Gemini">>>>,
                       <<>>, "", "", TRUE, <<>>)
        ELSE IF trim(llm.sql) = <<>>
        THEN GenResult(FALSE, <<>>, <<>>,
                       IF llm.explanation # "" THEN llm.explanation ELSE "default help",
                       "table", TRUE, <<>>)
        ELSE IF ~validation.valid
        THEN GenResult(TRUE, <<<<"Failed to generate SQL query: ">>, <<validation.error>>>>,
                       <<>>, "", "", TRUE, <<cleanedSQL>>)
        ELSE GenResult(FALSE, <<>>, cleanedSQL,
                       IF llm.explanation # "" THEN llm.explanation
                                               ELSE "Query executed successfully",
                       IF llm.visualizationType # "" THEN llm.visualizationType ELSE "table",
                       TRUE, <<cleanedSQL>>)

(***************************************************************************)
(* Query executor (executeSQL).  rpc is what the execute_sql procedure     *)
(* answers.                                                                *)
(***************************************************************************)
\* The first of the non-blank ";"-separated statements of s, s itself when
\* there is at most one.
RECURSIVE SplitOn(_, _)
SplitOn(s, sep) ==
    IF \A i \in 1..Len(s) : s[i] # sep THEN <<s>>
    ELSE LET i == CHOOSE j \in 1..Len(s) : s[j] = sep /\ \A k \in 1..(j - 1) : s[k] # sep
         IN  <<SubSeq(s, 1, i - 1)>> \o SplitOn(SubSeq(s, i + 1, Len(s)), sep)

statementsOf(s) == SelectSeq(SplitOn(s, ";"), LAMBDA t : trim(t) # <<>>)

\* An executor that sends the whole text.
queryText_Whole(sql) == cleanSQL(sql)

\* The query_text handed to the procedure.
queryText(sql) ==
    IF Len(statementsOf(cleanSQL(sql))) > 1
    THEN trim(statementsOf(cleanSQL(sql))[1])
    ELSE cleanSQL(sql)

\* Object.keys(row): a row is a sequence of <<column, value>> pairs.
ObjectKeys(row) == [i \in 1..Len(row) |-> row[i][1]]

\* rpc.kind: "error" (the procedure answers with an error), "throw" (the
\* call itself fails), "rows" (an array of rows), "text" (the rows as a JSON
\* string), "badtext" (a string that is no JSON), "other" (anything else).
executeSQL(sql, rpc) ==
    IF rpc.kind = "throw"
    THEN [threw |-> TRUE, message |-> <<<<"transport error">>>>,
          data |-> <<>>, columns |-> <<>>, query_text |-> queryText(sql)]
    ELSE IF rpc.kind = "error"
    THEN [threw |-> TRUE, message |-> <<<<"SQL execution failed: ">>, <<"database error">>>>,
          data |-> <<>>, columns |-> <<>>, query_text |-> queryText(sql)]
    ELSE IF rpc.kind = "badtext"
    THEN [threw |-> TRUE, message |-> <<<<"Unexpected token in JSON">>>>,
          data |-> <<>>, columns |-> <<>>, query_text |-> queryText(sql)]
    ELSE IF rpc.kind \in {"rows", "text"}
    THEN [threw |-> FALSE, message |-> <<>>, data |-> rpc.data,
          columns |-> IF Len(rpc.data) > 0 THEN ObjectKeys(rpc.data[1]) ELSE <<>>,
          query_text |-> queryText(sql)]
    ELSE [threw |-> FALSE, message |-> <<>>, data |-> <<>>, columns |-> <<>>,
          query_text |-> queryText(sql)]

(***************************************************************************)
(* Chat generator (generateChatResponse).                                  *)
(***************************************************************************)
generateChatResponse(prompt, context, llm) ==
    IF llm.kind = "throw"
    THEN [threw |-> TRUE, message |-> <<<<"Gemini API error: ">>, <<"service error">>>>, text |-> ""]
    ELSE [threw |-> FALSE, message |-> <<>>, text |-> llm.text]

(***************************************************************************)
(* The requests.  Each request id serves one request, of either route.     *)
(***************************************************************************)
Reqs == {"r1", "r2"}

\* body.question: a string (text), or a value that is no string.
QuestionInputs ==
    {[type |-> "undefined", text |-> <<>>],
     [type |-> "number", text |-> <<>>],
     [type |-> "string", text |-> <<>>],
     [type |-> "string", text |-> <<"hi">>],
     [type |-> "string", text |-> <<"what is this">>],
     [type |-> "string", text |-> <<"total orders">>],
     [type |-> "string", text |-> <<" ", "TOTAL ORDERS">>]}

\* What the text-generation service may answer to the SQL prompt.
LlmJson(sql, explanation, viz) ==
    [kind |-> "json", sql |-> sql, explanation |-> explanation,
     visualizationType |-> viz, text |-> <<>>]

LlmSqlOutputs ==
    {[kind |-> "throw", sql |-> <<>>, explanation |-> "", visualizationType |-> "",
      text |-> <<>>],
     [kind |-> "unparsable", sql |-> <<>>, explanation |-> "", visualizationType |-> "",
      text |-> <<>>],
     LlmJson(<<>>, "let us talk", "table"),
     LlmJson(<<"SELECT">>, "counts the orders", "metric"),
     LlmJson(<<"SELECT", ";">>, "", ""),
     LlmJson(<<"SELECT", ";", " ", "DROP TABLE x">>, "drops a table", "table"),
     LlmJson(<<"WITH">>, "uses a cte", "table")}

\* What the text-generation service may answer to the chat prompt.
LlmChatOutputs ==
    {[kind |-> "throw", sql |-> <<>>, explanation |-> "", visualizationType |-> "",
      text |-> <<>>],
     [kind |-> "text", sql |-> <<>>, explanation |-> "", visualizationType |-> "",
      text |-> <<"an answer">>]}

NoLlm ==
    [kind |-> "none", sql |-> <<>>, explanation |-> "", visualizationType |-> "",
     text |-> <<>>]

\* What the execute_sql procedure may answer.
RpcOutcomes ==
    {[kind |-> "error", data |-> <<>>],
     [kind |-> "throw", data |-> <<>>],
     [kind |-> "rows", data |-> <<>>],
     [kind |-> "rows", data |-> << <<<<"total", 99441>>>> >>]}

NoRpc == [kind |-> "none", data |-> <<>>]

NoKey == <<"", <<"", <<>>>>>>
NoEvent == [op |-> "none", by |-> "none"]
NoSqlResult == [sql |-> <<>>, explanation |-> "", visualizationType |-> ""]

IdleReq ==
    [pc |-> "idle", route |-> "none", qtype |-> "none", question |-> <<>>,
     includeData |-> FALSE, history |-> <<>>, cacheKey |-> NoKey, sqlResult |-> NoSqlResult,
     data |-> <<>>, columns |-> <<>>, chatResponse |-> [text |-> <<>>],
     status |-> 0, body |-> [pending |-> TRUE],
     \* history of the request
     calls |-> <<>>, validated |-> {}, rejected |-> {}, llm |-> NoLlm,
     rpc |-> NoRpc, sawEvent |-> NoEvent]

\* One call made by a handler: the operation, what its collaborator did, for
\* a cache read whether it found a value, and what was passed or read.
Call(op, io, hit, arg) == [op |-> op, io |-> io, hit |-> hit, arg |-> arg]

\* History of a cache read: the time of the write on record for the key, -1
\* when there is none.
NoWrite == 0 - 1
lastWrite(key) == IF key \in DOMAIN written THEN written[key] ELSE NoWrite

\* History after a call of setCachedData that the store served.
writtenAfter(key, io) ==
    IF io = "ok"
    THEN [k \in DOMAIN written \cup {key} |-> IF k = key THEN now ELSE written[k]]
    ELSE written

Respond(rec, status, body) == [rec EXCEPT !.pc = "done", !.status = status, !.body = body]

(***************************************************************************)
(* Analytics route: POST.                                                  *)
(***************************************************************************)
QueryTTL == 3600

BadRequest == [error |-> "Question is required and must be a string"]

\* A test that lets the empty string through.
invalidQuestion_TypeOnly(q) == q.type # "string"

\* !question || typeof question !== 'string'
invalidQuestion(q) == q.type # "string" \/ q.text = <<>>

QueryFailure(message) ==
    [error |-> "Failed to process your query", message |-> message,
     hint |-> "Check the server logs for more details"]

\* A failure of executeSQL answered without the sql.
ExecuteFailure_NoSql(message, sqlResult) ==
    [error |-> "Failed to execute query", message |-> message,
     hint |-> "Check the server logs for more details"]

ExecuteFailure(message, sqlResult) ==
    [error |-> "Failed to execute query", message |-> message, sql |-> sqlResult.sql,
     explanation |-> sqlResult.explanation,
     hint |-> "Make sure the execute_sql RPC function is set up in Supabase. See db/rpc-function.sql"]

\* A hit answered with the stored payload as it is.
CachedBody_NoFlag(cachedResponse) == cachedResponse

\* {...cachedResponse, cached: true}
CachedBody(cachedResponse) ==
    [f \in DOMAIN cachedResponse \cup {"cached"} |->
        IF f = "cached" THEN TRUE ELSE cachedResponse[f]]

Conversational(sqlResult) ==
    [sql |-> <<>>, explanation |-> sqlResult.explanation, data |-> <<>>,
     columns |-> <<>>, visualizationType |-> "table", cached |-> FALSE,
     executionTime |-> "elapsed", isConversational |-> TRUE]

\* A fresh response that is marked as cached.
QueryResponse_CachedTrue(sqlResult, queryData, columns) ==
    [sql |-> sqlResult.sql, explanation |-> sqlResult.explanation, data |-> queryData,
     columns |-> columns, visualizationType |-> sqlResult.visualizationType,
     cached |-> TRUE, executionTime |-> "elapsed"]

QueryResponse(sqlResult, queryData, columns) ==
    [sql |-> sqlResult.sql, explanation |-> sqlResult.explanation, data |-> queryData,
     columns |-> columns,
     visualizationType |-> IF sqlResult.visualizationType # ""
                           THEN sqlResult.visualizationType ELSE "table",
     cached |-> FALSE, executionTime |-> "elapsed"]

\* Request parsing, the greeting test and the cache check.
QueryReceive(r, IOs) ==
    /\ req[r].pc = "idle"
    /\ \E q \in QuestionInputs, io \in IOs :
        LET rec == [req[r] EXCEPT !.route = "query", !.qtype = q.type, !.question = q.text]
            cacheKey == generateCacheKey(q.text)
            got == getCachedData(cache, cacheKey, io)
            seen == [rec EXCEPT !.cacheKey = cacheKey, !.sawEvent = lastCacheEvent,
                                !.calls = @ \o <<Call("getCachedData", io, Truthy(got.value),
                                                     [key |-> cacheKey, value |-> got.value,
                                                      at |-> now,
                                                      since |-> lastWrite(cacheKey)])>>]
        IN  req' = [req EXCEPT ![r] =
                IF invalidQuestion(q)
                THEN Respond(rec, 400, BadRequest)
                ELSE IF isGreetingRequest(q.text)
                THEN [rec EXCEPT !.cacheKey = cacheKey, !.pc = "generate"]
                ELSE IF got.threw
                THEN Respond(seen, 500, QueryFailure(got.message))
                ELSE IF Truthy(got.value)
                THEN Respond(seen, 200, CachedBody(got.value))
                ELSE [seen EXCEPT !.pc = "generate"]]
    /\ UNCHANGED <<cache, lastCacheEvent, validateVars, keyVars, unitVars, clearVars, oneVars, timeVars>>

\* generateSQLFromQuestion and the conversational answer.
QueryGenerate(r) ==
    /\ req[r].pc = "generate"
    /\ \E llm \in LlmSqlOutputs :
        LET sqlResult == generateSQLFromQuestion(req[r].question, llm)
            rec == [req[r] EXCEPT
                        !.calls = @ \o <<Call("generateSQLFromQuestion", "ok", FALSE, req[r].question)>>
                                    \o IF sqlResult.llmCalled
                                       THEN <<Call("textGeneration", llm.kind, FALSE, req[r].question)>>
                                       ELSE <<>>,
                        !.llm = IF sqlResult.llmCalled THEN llm ELSE NoLlm,
                        !.validated = {t \in {sqlResult.checked[i] : i \in 1..Len(sqlResult.checked)} :
                                          validateSQL(t).valid},
                        !.rejected = {t \in {sqlResult.checked[i] : i \in 1..Len(sqlResult.checked)} :
                                          ~validateSQL(t).valid},
                        !.sqlResult = [sql |-> sqlResult.sql,
                                       explanation |-> sqlResult.explanation,
                                       visualizationType |-> sqlResult.visualizationType]]
        IN  req' = [req EXCEPT ![r] =
                IF sqlResult.threw
                THEN Respond(rec, 500, QueryFailure(sqlResult.message))
                ELSE IF trim(sqlResult.sql) = <<>>
                THEN Respond(rec, 200, Conversational(sqlResult))
                ELSE [rec EXCEPT !.pc = "execute"]]
    /\ UNCHANGED <<cache, lastCacheEvent, validateVars, keyVars, unitVars, clearVars, oneVars, timeVars>>

\* executeSQL and the answer to its failure.
QueryExecute(r) ==
    /\ req[r].pc = "execute"
    /\ \E rpc \in RpcOutcomes :
        LET result == executeSQL(req[r].sqlResult.sql, rpc)
            rec == [req[r] EXCEPT
                        !.calls = @ \o <<Call("executeSQL", rpc.kind, FALSE, req[r].sqlResult.sql)>>,
                        !.rpc = rpc]
        IN  req' = [req EXCEPT ![r] =
                IF result.threw
                THEN Respond(rec, 500, ExecuteFailure(result.message, req[r].sqlResult))
                ELSE [rec EXCEPT !.pc = "store", !.data = result.data,
                                 !.columns = result.columns]]
    /\ UNCHANGED <<cache, lastCacheEvent, validateVars, keyVars, unitVars, clearVars, oneVars, timeVars>>

\* The response is built, written to the cache and returned.
QueryStore(r, IOs) ==
    /\ req[r].pc = "store"
    /\ \E io \in IOs :
        LET response == QueryResponse(req[r].sqlResult, req[r].data, req[r].columns)
            set == setCachedData(cache, req[r].cacheKey, response, QueryTTL, io)
            rec == [req[r] EXCEPT !.calls = @ \o <<Call("setCachedData", io, FALSE,
                                                         [key |-> req[r].cacheKey, value |-> response,
                                                          ttl |-> QueryTTL, at |-> now])>>]
        IN  /\ req' = [req EXCEPT ![r] =
                    IF set.threw THEN Respond(rec, 500, QueryFailure(set.message))
                                 ELSE Respond(rec, 200, response)]
            /\ cache' = set.store
            /\ lastCacheEvent' = IF set.store # cache \/ io = "ok"
                                 THEN [op |-> "set", by |-> r] ELSE lastCacheEvent
            /\ written' = writtenAfter(req[r].cacheKey, io)
    /\ UNCHANGED <<now, validateVars, keyVars, unitVars, clearVars, oneVars>>

(***************************************************************************)
(* Chat route: POST.                                                       *)
(***************************************************************************)
ChatTTL == 3600

ChatFailure(message) ==
    [error |-> "Failed to process your request", message |-> message,
     hint |-> "Check your GOOGLE_AI_API_KEY and GEMINI_MODEL_NAME in .env.local"]

\* The sentence built from a cached analytics answer: which of the four
\* shapes it takes, around the explanation and the rows it quotes.
summaryText(cachedQueryResponse) ==
    LET data == cachedQueryResponse.data
        shape == IF Len(data) > 0
                 THEN IF cachedQueryResponse.visualizationType = "metric" /\ Len(data) = 1
                      THEN "metric"
                      ELSE IF Len(data) = 1 THEN "single row" ELSE "rows"
                 ELSE "no data"
    IN  [text |-> <<shape, cachedQueryResponse.explanation, data>>]

\* A test that asks for at least one row.
hasQueryData_NonEmpty(cachedQueryResponse) ==
    /\ Truthy(cachedQueryResponse)
    /\ "data" \in DOMAIN cachedQueryResponse
    /\ cachedQueryResponse.data # <<>>

\* cachedQueryResponse && cachedQueryResponse.data !== undefined
hasQueryData(cachedQueryResponse) ==
    Truthy(cachedQueryResponse) /\ "data" \in DOMAIN cachedQueryResponse

\* A chat hit that is not marked as cached.
ChatCachedBody_NotCached(cachedResponse) ==
    [response |-> cachedResponse, cached |-> FALSE]

\* The answer to a hit under the chat key.
ChatCachedBody(cachedResponse) == [response |-> cachedResponse, cached |-> TRUE]

\* The optional context tag of the chat key.
contextTag(includeData) == IF includeData THEN Some(<<"with-data">>) ELSE None

\* body.history: the earlier messages of the conversation, each with a role
\* and a content; the empty sequence when the field is left out.
NoHistory == <<>>

Histories ==
    {NoHistory,
     <<[role |-> "user", content |-> <<"earlier question">>]>>,
     <<[role |-> "user", content |-> <<"earlier question">>],
       [role |-> "assistant", content |-> <<"earlier answer", " ">>]>>}

\* history.slice(-10).map(m => `${role}: ${String(m.content || '').trim()}`)
\*        .join('\n')
RECURSIVE joinLines(_)
joinLines(lines) ==
    IF lines = <<>> THEN <<>>
    ELSE IF Len(lines) = 1 THEN lines[1]
    ELSE lines[1] \o <<"\n">> \o joinLines(Tail(lines))

historyText(history) ==
    LET recent == SubSeq(history, IF Len(history) > 10 THEN Len(history) - 9 ELSE 1,
                         Len(history))
    IN  joinLines([i \in 1..Len(recent) |->
                      <<IF recent[i].role = "assistant" THEN "Assistant" ELSE "User", ": ">>
                      \o trim(recent[i].content)])

\* The context handed to generateChatResponse: the history, then the sample.
chatContext(history, sample) ==
    IF Len(history) > 0
    THEN IF sample # <<>> THEN historyText(history) \o <<"\n\n">> \o sample
                          ELSE historyText(history)
    ELSE sample

\* A chat key that takes the history into the prompt.
chatCacheKey_WithHistory(question, includeData, history) ==
    generateChatCacheKey(question \o historyText(history), contextTag(includeData))

\* const cacheKey = generateChatCacheKey(question, includeData ? 'with-data' : undefined)
chatCacheKey(question, includeData, history) ==
    generateChatCacheKey(question, contextTag(includeData))

\* Request parsing, the greeting test and the look-up of an analytics answer.
ChatReceive(r, IOs, Hs) ==
    /\ req[r].pc = "idle"
    /\ \E q \in QuestionInputs, includeData \in BOOLEAN, history \in Hs, io \in IOs :
        LET rec == [req[r] EXCEPT !.route = "chat", !.qtype = q.type, !.question = q.text,
                                  !.includeData = includeData, !.history = history]
            cacheKey == chatCacheKey(q.text, includeData, history)
            queryCacheKey == generateQueryCacheKey(q.text)
            got == getCachedData(cache, queryCacheKey, io)
            seen == [rec EXCEPT !.cacheKey = cacheKey, !.sawEvent = lastCacheEvent,
                                !.calls = @ \o <<Call("getCachedData", io, Truthy(got.value),
                                                     [key |-> queryCacheKey, value |-> got.value,
                                                      at |-> now,
                                                      since |-> lastWrite(queryCacheKey)])>>]
        IN  req' = [req EXCEPT ![r] =
                IF invalidQuestion(q)
                THEN Respond(rec, 400, BadRequest)
                ELSE IF isGreetingRequest(q.text)
                THEN [rec EXCEPT !.cacheKey = cacheKey, !.pc = "chatGenerate"]
                ELSE IF got.threw
                THEN Respond(seen, 500, ChatFailure(got.message))
                ELSE IF hasQueryData(got.value)
                THEN Respond(seen, 200, [response |-> summaryText(got.value), cached |-> TRUE])
                ELSE [seen EXCEPT !.pc = "chatCheck"]]
    /\ UNCHANGED <<cache, lastCacheEvent, validateVars, keyVars, unitVars, clearVars, oneVars, timeVars>>

\* The look-up of a chat answer.
ChatCacheCheck(r, IOs) ==
    /\ req[r].pc = "chatCheck"
    /\ \E io \in IOs :
        LET got == getCachedData(cache, req[r].cacheKey, io)
            seen == [req[r] EXCEPT
                        !.calls = @ \o <<Call("getCachedData", io, Truthy(got.value),
                                             [key |-> req[r].cacheKey, value |-> got.value,
                                              at |-> now,
                                              since |-> lastWrite(req[r].cacheKey)])>>]
        IN  req' = [req EXCEPT ![r] =
                IF got.threw
                THEN Respond(seen, 500, ChatFailure(got.message))
                ELSE IF Truthy(got.value)
                THEN Respond(seen, 200, ChatCachedBody(got.value))
                ELSE [seen EXCEPT !.pc = "chatGenerate"]]
    /\ UNCHANGED <<cache, lastCacheEvent, validateVars, keyVars, unitVars, clearVars, oneVars, timeVars>>

\* The optional sample of rows, then generateChatResponse.
ChatGenerate(r) ==
    /\ req[r].pc = "chatGenerate"
    /\ \E llm \in LlmChatOutputs :
        LET context == chatContext(req[r].history,
                                   IF req[r].includeData THEN <<"sample rows">> ELSE <<>>)
            response == generateChatResponse(req[r].question, context, llm)
            rec == [req[r] EXCEPT
                        !.calls = @ \o (IF req[r].includeData
                                        THEN <<Call("sampleRows", "ok", FALSE, <<>>)>> ELSE <<>>)
                                    \o <<Call("textGeneration", llm.kind, FALSE,
                                               [prompt |-> req[r].question,
                                                context |-> context])>>,
                        !.llm = llm]
        IN  req' = [req EXCEPT ![r] =
                IF response.threw
                THEN Respond(rec, 500, ChatFailure(response.message))
                ELSE [rec EXCEPT !.pc = "chatStore",
                                 !.chatResponse = [text |-> response.text]]]
    /\ UNCHANGED <<cache, lastCacheEvent, validateVars, keyVars, unitVars, clearVars, oneVars, timeVars>>

\* The answer is written to the cache and returned.
ChatStore(r, IOs) ==
    /\ req[r].pc = "chatStore"
    /\ \E io \in IOs :
        LET set == setCachedData(cache, req[r].cacheKey, req[r].chatResponse, ChatTTL, io)
            rec == [req[r] EXCEPT !.calls = @ \o <<Call("setCachedData", io, FALSE,
                                      [key |-> req[r].cacheKey, value |-> req[r].chatResponse,
                                       ttl |-> ChatTTL, at |-> now])>>]
        IN  /\ req' = [req EXCEPT ![r] =
                    IF set.threw
                    THEN Respond(rec, 500, ChatFailure(set.message))
                    ELSE Respond(rec, 200, [response |-> req[r].chatResponse,
                                            cached |-> FALSE])]
            /\ cache' = set.store
            /\ lastCacheEvent' = IF set.store # cache \/ io = "ok"
                                 THEN [op |-> "set", by |-> r] ELSE lastCacheEvent
            /\ written' = writtenAfter(req[r].cacheKey, io)
    /\ UNCHANGED <<now, validateVars, keyVars, unitVars, clearVars, oneVars>>

(***************************************************************************)
(* Clear-cache route: DELETE (clear all).  The handler runs scanAndDelete  *)
(* for "query:*" and then for "chat:*".  Each round calls redis.scan with  *)
(* the cursor it holds and, for a batch that is not empty, redis.del.      *)
(***************************************************************************)
Patterns == <<"query:", "chat:">>

\* The keys of the store that the pattern prefix* matches.
Matching(store, prefix) == {k \in DOMAIN store : k[1] = prefix}

\* A cursor as the store's answer carries it: a number, or its digits.
DigitChars == <<"0", "1", "2", "3", "4", "5", "6", "7", "8", "9">>
CursorForms(n) == {[type |-> "number", n |-> n, digits |-> ""],
                   [type |-> "string", n |-> 0, digits |-> DigitChars[n + 1]]}

\* parseInt(digits, 10) of one digit.
parseInt10(digits) == (CHOOSE i \in 1..Len(DigitChars) : DigitChars[i] = digits) - 1

\* typeof result[0] === 'number' ? result[0] : parseInt(result[0], 10)
parseCursor(c) == IF c.type = "number" THEN c.n ELSE parseInt10(c.digits)

\* What redis.scan(cursor, {match: prefix*}) may answer.  A store that
\* scans answers with a next cursor and some of the matching keys, or fails;
\* a store without SCAN fails every call.  mentions: whether the error
\* message contains "SCAN" or "not supported".
ScanError(mentions) ==
    [kind |-> "error", mentions |-> mentions, cursor |-> [type |-> "number", n |-> 0, digits |-> ""],
     keys |-> {}]

ScanAnswers(store, prefix, mode) ==
    {ScanError(TRUE), ScanError(FALSE)} \cup
    IF mode = "scans"
    THEN {[kind |-> "ok", mentions |-> FALSE, cursor |-> c, keys |-> ks] :
             c \in UNION {CursorForms(n) : n \in 0..MaxCursor},
             ks \in SUBSET Matching(store, prefix)}
    ELSE {}

\* A loop test that stops after the first round.
scanFinished_Always(scanCursor) == TRUE

\* if (scanCursor === 0) break ... while (scanCursor !== 0)
scanFinished(scanCursor) == scanCursor = 0

NoScan == [first |-> -1, lastOut |-> -1]

IdleClear ==
    [pc |-> "idle", mode |-> "scans", pattern |-> 1, scanCursor |-> 0, keys |-> {},
     count |-> 0, deletedCount |-> 0, status |-> 0, body |-> [pending |-> TRUE],
     \* history of the request
     scans |-> <<NoScan, NoScan>>, returned |-> {}, handed |-> 0, handedKeys |-> {},
     removed |-> {}, start |-> {}, failed |-> FALSE, lastError |-> "none"]

ClearFailure(message) ==
    [error |-> "Failed to clear cache", message |-> message,
     hint |-> "You may need to clear cache manually via Upstash dashboard or Redis CLI"]

\* A success answer that adds the hint.
ClearSuccess_WithHint(deletedCount) ==
    [success |-> TRUE,
     message |-> IF deletedCount > 0
                 THEN <<"All cache cleared successfully (", deletedCount, " entries)">>
                 ELSE <<"Cache cleared (or no cache entries found)">>,
     deletedCount |-> deletedCount,
     hint |-> "You may need to clear cache manually via Upstash dashboard or Redis CLI"]

ClearSuccess(deletedCount) ==
    [success |-> TRUE,
     message |-> IF deletedCount > 0
                 THEN <<"All cache cleared successfully (", deletedCount, " entries)">>
                 ELSE <<"Cache cleared (or no cache entries found)">>,
     deletedCount |-> deletedCount]

\* scanAndDelete returns n for the pattern at hand: the handler adds it to
\* deletedCount and goes on to the next pattern, or answers.
patternReturns(rec, n) ==
    IF rec.pattern < Len(Patterns)
    THEN [rec EXCEPT !.pc = "scan", !.pattern = @ + 1, !.scanCursor = 0, !.keys = {},
                     !.count = 0, !.deletedCount = @ + n]
    ELSE [rec EXCEPT !.pc = "done", !.keys = {}, !.deletedCount = @ + n,
                     !.status = 200, !.body = ClearSuccess(rec.deletedCount + n)]

\* The end of one round of the do-while loop.
roundEnds(rec) ==
    IF scanFinished(rec.scanCursor) THEN patternReturns(rec, rec.count)
                                    ELSE [rec EXCEPT !.pc = "scan", !.keys = {}]

\* The catch inside the loop: an error that mentions SCAN makes
\* scanAndDelete return 0, any other error reaches the handler's catch.
scanFails(rec, mentions) ==
    IF mentions
    THEN patternReturns([rec EXCEPT !.failed = TRUE, !.lastError = "mentions"], 0)
    ELSE [rec EXCEPT !.pc = "done", !.failed = TRUE, !.lastError = "other",
                     !.keys = {}, !.status = 500,
                     !.body = ClearFailure(<<"store error">>)]

\* The request arrives; the store behind it scans, or has no SCAN.
ClearReceive ==
    /\ clr.pc = "idle"
    /\ \E mode \in {"scans", "noscan"} :
          clr' = [clr EXCEPT !.pc = "scan", !.mode = mode, !.start = DOMAIN cache]
    /\ UNCHANGED <<handlerVars, validateVars, keyVars, unitVars, oneVars, timeVars>>

\* redis.scan with the cursor held.  zeroOnly: the store answers with the
\* cursor 0.
ClearScan(zeroOnly) ==
    /\ clr.pc = "scan"
    /\ \E a \in ScanAnswers(cache, Patterns[clr.pattern], clr.mode) :
        /\ zeroOnly => (a.kind = "ok" /\ parseCursor(a.cursor) = 0)
        /\ LET seen == [clr EXCEPT
                           !.scans[clr.pattern] =
                               [first |-> IF @.first = -1 THEN clr.scanCursor ELSE @.first,
                                lastOut |-> IF a.kind = "ok" THEN parseCursor(a.cursor)
                                                             ELSE @.lastOut],
                           !.returned = @ \cup a.keys]
                got == [seen EXCEPT !.scanCursor = parseCursor(a.cursor), !.keys = a.keys]
           IN  clr' = IF a.kind = "error" THEN scanFails(seen, a.mentions)
                      ELSE IF a.keys # {} THEN [got EXCEPT !.pc = "del"]
                      ELSE roundEnds(got)
    /\ UNCHANGED <<handlerVars, validateVars, keyVars, unitVars, oneVars, timeVars>>

\* redis.del(...keys) of the batch, and the rest of the round.
ClearDel ==
    /\ clr.pc = "del"
    /\ \E io \in TransportIO :
        IF io = "ok"
        THEN /\ cache' = [k \in DOMAIN cache \ clr.keys |-> cache[k]]
             /\ clr' = roundEnds([clr EXCEPT !.count = @ + Cardinality(clr.keys),
                                             !.handed = @ + Cardinality(clr.keys),
                                             !.handedKeys = @ \cup clr.keys,
                                             !.removed = @ \cup (clr.keys \cap DOMAIN cache)])
        ELSE /\ cache' = cache
             /\ clr' = scanFails(clr, FALSE)
    /\ lastCacheEvent' = IF cache' # cache THEN [op |-> "del", by |-> "clear"]
                                           ELSE lastCacheEvent
    /\ written' = [k \in DOMAIN written \cap DOMAIN cache' |-> written[k]]
    /\ UNCHANGED <<now, req, validateVars, keyVars, unitVars, oneVars>>

(***************************************************************************)
(* Clear-cache route: POST (clear one).  The handler derives one key from  *)
(* the question and the mode and deletes it.                               *)
(***************************************************************************)
\* body.mode; any value other than 'query' and 'analytics' takes the chat arm.
ClearModes == {"query", "analytics", "chat"}

IdleOne ==
    [pc |-> "idle", qtype |-> "none", question |-> <<>>, mode |-> "none",
     cacheKey |-> NoKey, status |-> 0, body |-> [pending |-> TRUE],
     \* history of the request
     io |-> "none", at |-> 0, found |-> FALSE]

\* if (!question)
missingQuestion(q) == q.type = "undefined" \/ (q.type = "string" /\ q.text = <<>>)

OneBadRequest == [error |-> "Question is required"]

OneFailure(message) == [error |-> "Failed to clear cache", message |-> message]

OneSuccess(mode, cacheKey) ==
    [success |-> TRUE,
     message |-> IF mode \in {"query", "analytics"}
                 THEN "Cache cleared for analytics query"
                 ELSE "Cache cleared for chat response",
     key |-> cacheKey]

\* A key helper that forgets to lower-case the question.
clearKey_NoLower(question, mode) ==
    IF mode \in {"query", "analytics"}
    THEN <<"query:", sha256hex(trim(question))>>
    ELSE <<"chat:", base64(question)>>

\* The key the handler deletes: the route's own copies of the two helpers,
\* the chat one called without a context.
clearKey(question, mode) ==
    IF mode \in {"query", "analytics"}
    THEN <<"query:", sha256hex(trim(toLowerCase(question)))>>
    ELSE LET baseString == question
         IN  <<"chat:", base64(baseString)>>

\* The whole handler: its one call to the store is deleteCachedData.  A
\* question that is no string makes the key helper throw.
ClearOne ==
    /\ one.pc = "idle"
    /\ \E q \in QuestionInputs, mode \in ClearModes, io \in TransportIO :
        LET rec == [one EXCEPT !.qtype = q.type, !.question = q.text, !.mode = mode,
                               !.pc = "done", !.at = now]
            cacheKey == clearKey(q.text, mode)
            del == deleteCachedData(cache, cacheKey, io)
        IN  IF missingQuestion(q)
            THEN /\ one' = [rec EXCEPT !.status = 400, !.body = OneBadRequest]
                 /\ UNCHANGED <<cache, lastCacheEvent, written>>
            ELSE IF q.type # "string"
            THEN /\ one' = [rec EXCEPT !.status = 500,
                                       !.body = OneFailure(<<"not a function">>)]
                 /\ UNCHANGED <<cache, lastCacheEvent, written>>
            ELSE /\ one' = [rec EXCEPT !.cacheKey = cacheKey, !.io = io,
                                       !.found = cacheKey \in DOMAIN cache, !.status = 200,
                                       !.body = OneSuccess(mode, cacheKey)]
                 /\ cache' = del.store
                 /\ lastCacheEvent' = IF io = "ok" THEN [op |-> "del", by |-> "one"]
                                                   ELSE lastCacheEvent
                 /\ written' = IF io = "ok"
                               THEN [k \in DOMAIN written \ {cacheKey} |-> written[k]]
                               ELSE written
    /\ UNCHANGED <<now, req, validateVars, keyVars, unitVars, clearVars>>

(***************************************************************************)
(* Time passes.  An entry's ttl is the time it has left; the store drops   *)
(* the entry when none is left.                                            *)
(***************************************************************************)
Instants == {3599, 3600}

Tick ==
    /\ \E t \in Instants :
        /\ t > now
        /\ now' = t
        /\ cache' = [k \in {j \in DOMAIN cache : cache[j].ttl > t - now} |->
                        [cache[k] EXCEPT !.ttl = @ - (t - now)]]
    /\ lastCacheEvent' = IF DOMAIN cache' # DOMAIN cache
                         THEN [op |-> "expire", by |-> "store"] ELSE lastCacheEvent
    /\ UNCHANGED <<written, req, validateVars, keyVars, unitVars, clearVars, oneVars>>

(***************************************************************************)
(* The store drops an entry whose time to live has run out.                *)
(***************************************************************************)
Expire ==
    /\ \E k \in DOMAIN cache :
        cache' = [j \in DOMAIN cache \ {k} |-> cache[j]]
    /\ lastCacheEvent' = [op |-> "expire", by |-> "store"]
    /\ UNCHANGED <<req, validateVars, keyVars, unitVars, clearVars, oneVars, timeVars>>

(***************************************************************************)
(* Specification of the handlers.                                          *)
(***************************************************************************)
NoResult == [valid |-> FALSE, error |-> ""]

ValidateIdle == vIn = <<>> /\ vOut = NoResult /\ vDone = TRUE
KeyIdle == kIn = <<>> /\ kOut = <<>> /\ kDone = TRUE
UnitIdle == uIn = <<>> /\ uOut = <<>> /\ uDone = TRUE
ClearIdle == clr = IdleClear
OneIdle == one = IdleOne
TimeIdle == now = 0 /\ written = <<>>

HandlerInit ==
    /\ cache = <<>>
    /\ lastCacheEvent = NoEvent
    /\ req = [r \in Reqs |-> IdleReq]

Init == HandlerInit /\ ValidateIdle /\ KeyIdle /\ UnitIdle /\ ClearIdle /\ OneIdle /\ TimeIdle

Next ==
    \/ \E r \in Reqs : QueryReceive(r, TransportIO)
    \/ \E r \in Reqs : QueryGenerate(r)
    \/ \E r \in Reqs : QueryExecute(r)
    \/ \E r \in Reqs : QueryStore(r, TransportIO)
    \/ \E r \in Reqs : ChatReceive(r, TransportIO, {NoHistory})
    \/ \E r \in Reqs : ChatCacheCheck(r, TransportIO)
    \/ \E r \in Reqs : ChatGenerate(r)
    \/ \E r \in Reqs : ChatStore(r, TransportIO)
    \/ Expire

Spec == Init /\ [][Next]_vars

\* The same handlers over a store that may silently ignore any call.
NextNoop ==
    \/ \E r \in Reqs : QueryReceive(r, NoopIO)
    \/ \E r \in Reqs : QueryGenerate(r)
    \/ \E r \in Reqs : QueryExecute(r)
    \/ \E r \in Reqs : QueryStore(r, NoopIO)
    \/ \E r \in Reqs : ChatReceive(r, NoopIO, {NoHistory})
    \/ \E r \in Reqs : ChatCacheCheck(r, NoopIO)
    \/ \E r \in Reqs : ChatGenerate(r)
    \/ \E r \in Reqs : ChatStore(r, NoopIO)
    \/ Expire

SpecNoop == Init /\ [][NextNoop]_vars

(***************************************************************************)
(* Specification of validateSQL as a pure function of its input.           *)
(***************************************************************************)
SqlAlphabet == {"SELECT", "WITH", "DROP TABLE x", ";", " ", "\n", "--", "/*", "*/"}

SqlTexts == UNION {[1..n -> SqlAlphabet] : n \in 0..MaxSqlLen}

InitValidate ==
    /\ vIn \in SqlTexts
    /\ vOut = NoResult
    /\ vDone = FALSE
    /\ HandlerInit /\ KeyIdle /\ UnitIdle /\ ClearIdle /\ OneIdle /\ TimeIdle

Validate ==
    /\ ~vDone
    /\ vOut' = validateSQL(vIn)
    /\ vDone' = TRUE
    /\ UNCHANGED <<vIn, keyVars, handlerVars, unitVars, clearVars, oneVars, timeVars>>

NextValidate == Validate

SpecValidate == InitValidate /\ [][NextValidate]_vars

(***************************************************************************)
(* Specification of the key derivation as a pure function of the question. *)
(***************************************************************************)
AsciiChunks == {"a", "A", " "}
KeyAlphabet == AsciiChunks \cup {"sharp s"}

KeyQuestions == UNION {[1..n -> KeyAlphabet] : n \in 0..MaxQuestionLen}

InitKey ==
    /\ kIn \in KeyQuestions
    /\ kOut = <<>>
    /\ kDone = FALSE
    /\ HandlerInit /\ ValidateIdle /\ UnitIdle /\ ClearIdle /\ OneIdle /\ TimeIdle

\* The keys of the question and of q.trim().toUpperCase(), by the helper of
\* the analytics route and by the helper of the chat route.
DeriveKeys ==
    /\ ~kDone
    /\ kOut' = <<generateCacheKey(kIn), generateCacheKey(toUpperCase(trim(kIn))),
                 generateQueryCacheKey(kIn), generateQueryCacheKey(toUpperCase(trim(kIn)))>>
    /\ kDone' = TRUE
    /\ UNCHANGED <<kIn, validateVars, handlerVars, unitVars, clearVars, oneVars, timeVars>>

NextKey == DeriveKeys

SpecKey == InitKey /\ [][NextKey]_vars

(***************************************************************************)
(* Specification of generateChatCacheKey as a pure function of the prompt  *)
(* and of two contexts.                                                    *)
(***************************************************************************)
ChatPrompts == UNION {[1..n -> {"q", ":"}] : n \in 1..MaxKeyPartLen}

ChatContexts ==
    {None} \cup {Some(t) : t \in UNION {[1..n -> {"ctx", ":"}] : n \in 0..MaxKeyPartLen}}
           \cup {Some(<<"with-data">>)}

InitChatKey ==
    /\ uIn \in [prompt : ChatPrompts, c1 : ChatContexts, c2 : ChatContexts]
    /\ uOut = <<>>
    /\ uDone = FALSE
    /\ HandlerInit /\ ValidateIdle /\ KeyIdle /\ ClearIdle /\ OneIdle /\ TimeIdle

\* The keys of the prompt under each of the two contexts, and the keys the
\* chat handler derives for the prompt with and without includeData.
DeriveChatKeys ==
    /\ ~uDone
    /\ uOut' = <<generateChatCacheKey(uIn.prompt, uIn.c1),
                 generateChatCacheKey(uIn.prompt, uIn.c2),
                 generateChatCacheKey(uIn.prompt, contextTag(TRUE)),
                 generateChatCacheKey(uIn.prompt, contextTag(FALSE))>>
    /\ uDone' = TRUE
    /\ UNCHANGED <<uIn, validateVars, keyVars, handlerVars, clearVars, oneVars, timeVars>>

NextChatKey == DeriveChatKeys

SpecChatKey == InitChatKey /\ [][NextChatKey]_vars

(***************************************************************************)
(* Specification of the cache adapter: one setCachedData over a healthy    *)
(* store, then one getCachedData of the same key.                          *)
(***************************************************************************)
RoundTripKeys ==
    {generateCacheKey(<<"total orders">>),
     generateChatCacheKey(<<"total orders">>, None),
     generateChatCacheKey(<<"total orders">>, Some(<<"with-data">>))}

\* JSON-serializable values: numbers, booleans, strings (empty, plain, and
\* strings that are JSON text), null, objects.
RoundTripValues ==
    {[num |-> 0], [num |-> 1], [bool |-> FALSE], [bool |-> TRUE],
     [str |-> <<>>], [str |-> <<"an answer">>],
     JSONstringify([num |-> 1]), JSONstringify([str |-> <<"an answer">>]),
     Null, [field |-> Null], [text |-> <<"an answer">>],
     QueryResponse([sql |-> <<"SELECT">>, explanation |-> "counts the orders",
                    visualizationType |-> "metric"], <<>>, <<>>)}

\* What the client's get hands back: parsed values, or the stored text.
ClientModes == {"ok", "raw"}

RoundTripStart == [step |-> "start", value |-> Null]

InitRoundTrip ==
    /\ uIn \in [key : RoundTripKeys, value : RoundTripValues]
    /\ uOut = RoundTripStart
    /\ uDone = FALSE
    /\ cache \in {<<>>} \cup
                 {[k \in {key} |-> [json |-> [text |-> <<"an older answer">>], ttl |-> ChatTTL]] :
                     key \in RoundTripKeys}
    /\ lastCacheEvent = NoEvent
    /\ req = [r \in Reqs |-> IdleReq]
    /\ ValidateIdle /\ KeyIdle /\ ClearIdle /\ OneIdle /\ TimeIdle

RoundTripSet ==
    /\ ~uDone /\ uOut.step = "start"
    /\ cache' = setCachedData(cache, uIn.key, uIn.value, DefaultTTL, "ok").store
    /\ uOut' = [uOut EXCEPT !.step = "set"]
    /\ UNCHANGED <<uIn, uDone, lastCacheEvent, req, validateVars, keyVars, clearVars, oneVars, timeVars>>

RoundTripGet ==
    /\ ~uDone /\ uOut.step = "set"
    /\ \E io \in ClientModes :
          uOut' = [step |-> "got", value |-> getCachedData(cache, uIn.key, io).value]
    /\ uDone' = TRUE
    /\ UNCHANGED <<uIn, handlerVars, validateVars, keyVars, clearVars, oneVars, timeVars>>

NextRoundTrip == RoundTripSet \/ RoundTripGet

SpecRoundTrip == InitRoundTrip /\ [][NextRoundTrip]_vars

(***************************************************************************)
(* Specification of generateSQLFromQuestion as a function of the question  *)
(* and of what the text-generation service would answer.                   *)
(***************************************************************************)
GeneratorAlphabet == {"hi", "HI", "howdy", " ", "total orders"}

GeneratorQuestions == UNION {[1..n -> GeneratorAlphabet] : n \in 1..MaxQuestionLen}

InitGenerate ==
    /\ uIn \in [question : GeneratorQuestions, llm : LlmSqlOutputs]
    /\ uOut = <<>>
    /\ uDone = FALSE
    /\ HandlerInit /\ ValidateIdle /\ KeyIdle /\ ClearIdle /\ OneIdle /\ TimeIdle

Generate ==
    /\ ~uDone
    /\ uOut' = generateSQLFromQuestion(uIn.question, uIn.llm)
    /\ uDone' = TRUE
    /\ UNCHANGED <<uIn, validateVars, keyVars, handlerVars, clearVars, oneVars, timeVars>>

NextGenerate == Generate

SpecGenerate == InitGenerate /\ [][NextGenerate]_vars

(***************************************************************************)
(* Specification of executeSQL as a function of the sql text and of what   *)
(* the execute_sql procedure answers.                                      *)
(***************************************************************************)
StatementAlphabet == {"SELECT", "DROP TABLE x", ";", " "}

StatementTexts == UNION {[1..n -> StatementAlphabet] : n \in 0..MaxStatementLen}

RpcAnswers ==
    RpcOutcomes \cup
    {[kind |-> "text", data |-> << <<<<"total", 99441>>>> >>],
     [kind |-> "badtext", data |-> <<>>],
     [kind |-> "other", data |-> <<>>]}

InitExecute ==
    /\ uIn \in [sql : StatementTexts, rpc : RpcAnswers]
    /\ uOut = <<>>
    /\ uDone = FALSE
    /\ HandlerInit /\ ValidateIdle /\ KeyIdle /\ ClearIdle /\ OneIdle /\ TimeIdle

Execute ==
    /\ ~uDone
    /\ uOut' = executeSQL(uIn.sql, uIn.rpc)
    /\ uDone' = TRUE
    /\ UNCHANGED <<uIn, validateVars, keyVars, handlerVars, clearVars, oneVars, timeVars>>

NextExecute == Execute

SpecExecute == InitExecute /\ [][NextExecute]_vars

(***************************************************************************)
(* Specification of clear-all over a store that holds some entries, which  *)
(* may expire meanwhile.  The handler's steps are taken once they can be;  *)
(* a store that scans answers with the cursor 0 again and again.           *)
(***************************************************************************)
ClearKeys ==
    {generateCacheKey(<<"total orders">>), generateCacheKey(<<"hi">>),
     generateChatCacheKey(<<"total orders">>, None),
     generateChatCacheKey(<<"total orders">>, Some(<<"with-data">>))}

InitClear ==
    /\ cache \in {[k \in ks |-> [json |-> [text |-> <<"an answer">>], ttl |-> DefaultTTL]] :
                     ks \in SUBSET ClearKeys}
    /\ lastCacheEvent = NoEvent
    /\ req = [r \in Reqs |-> IdleReq]
    /\ ValidateIdle /\ KeyIdle /\ UnitIdle /\ ClearIdle /\ OneIdle /\ TimeIdle

NextClear ==
    \/ ClearReceive
    \/ ClearScan(FALSE)
    \/ ClearDel
    \/ Expire

SpecClear ==
    /\ InitClear /\ [][NextClear]_vars
    /\ WF_vars(ClearReceive) /\ WF_vars(ClearScan(FALSE)) /\ WF_vars(ClearDel)
    /\ SF_vars(ClearScan(TRUE))

(***************************************************************************)
(* Specification of generateChatCacheKey as a pure function of two pairs   *)
(* of a prompt and a context.  The chunks "q", ":" and "with-data" are     *)
(* such that a text has one sequence of chunks only.                       *)
(***************************************************************************)
PairPrompts == UNION {[1..n -> {"q", ":", "with-data"}] : n \in 1..(MaxKeyPartLen + 1)}

PairContexts == {None, Some(<<>>), Some(<<"with-data">>), Some(<<":", "with-data">>)}

InitChatPair ==
    /\ uIn \in [p1 : PairPrompts, c1 : PairContexts, p2 : PairPrompts, c2 : PairContexts]
    /\ uOut = <<>>
    /\ uDone = FALSE
    /\ HandlerInit /\ ValidateIdle /\ KeyIdle /\ ClearIdle /\ OneIdle /\ TimeIdle

DeriveChatPair ==
    /\ ~uDone
    /\ uOut' = <<generateChatCacheKey(uIn.p1, uIn.c1), generateChatCacheKey(uIn.p2, uIn.c2)>>
    /\ uDone' = TRUE
    /\ UNCHANGED <<uIn, validateVars, keyVars, handlerVars, clearVars, oneVars, timeVars>>

NextChatPair == DeriveChatPair

SpecChatPair == InitChatPair /\ [][NextChatPair]_vars

(***************************************************************************)
(* Specification of the chat handler alone, with requests that carry a     *)
(* history.                                                                *)
(***************************************************************************)
NextChat ==
    \/ \E r \in Reqs : ChatReceive(r, TransportIO, Histories)
    \/ \E r \in Reqs : ChatCacheCheck(r, TransportIO)
    \/ \E r \in Reqs : ChatGenerate(r)
    \/ \E r \in Reqs : ChatStore(r, TransportIO)
    \/ Expire

SpecChat == Init /\ [][NextChat]_vars

(***************************************************************************)
(* Specification of the handlers and the clear-one handler over a healthy  *)
(* store whose clock runs.  The requests ask one question, and the text    *)
(* generation and the database answer.                                     *)
(***************************************************************************)
TtlQuestion == <<"total orders">>

\* The step of request r belongs to a request of this specification.
TtlRequest(r) ==
    /\ req'[r].qtype = "string" /\ req'[r].question = TtlQuestion
    /\ req'[r].llm.kind \in {"none", "json", "text"}
    /\ req'[r].llm.sql \in {<<>>, <<"SELECT">>}
    /\ req'[r].rpc \in {NoRpc, [kind |-> "rows", data |-> << <<<<"total", 99441>>>> >>]}

NextTtl ==
    \/ \E r \in Reqs : QueryReceive(r, {"ok"}) /\ TtlRequest(r)
    \/ \E r \in Reqs : QueryGenerate(r) /\ TtlRequest(r)
    \/ \E r \in Reqs : QueryExecute(r) /\ TtlRequest(r)
    \/ \E r \in Reqs : QueryStore(r, {"ok"})
    \/ \E r \in Reqs : ChatReceive(r, {"ok"}, {NoHistory}) /\ TtlRequest(r)
    \/ \E r \in Reqs : ChatCacheCheck(r, {"ok"})
    \/ \E r \in Reqs : ChatGenerate(r) /\ TtlRequest(r)
    \/ \E r \in Reqs : ChatStore(r, {"ok"})
    \/ ClearOne /\ one'.qtype = "string" /\ one'.question = TtlQuestion /\ one'.io = "ok"
    \/ Tick

SpecTtl == Init /\ [][NextTtl]_vars

(***************************************************************************)
(* Specification of the handlers together with the clear-one handler: the  *)
(* requests ask "total orders" in two spellings, over a store that serves  *)
(* their reads and writes; the delete of the clear-one handler may fail.   *)
(***************************************************************************)
OneQuestions == {<<"total orders">>, <<" ", "TOTAL ORDERS">>}

\* The step of request r belongs to a request of this specification.
OneRequest(r) ==
    /\ req'[r].qtype = "string" /\ req'[r].question \in OneQuestions
    /\ req'[r].llm.kind \in {"none", "throw", "json", "text"}
    /\ req'[r].llm.sql \in {<<>>, <<"SELECT">>}
    /\ req'[r].rpc.kind \in {"none", "error", "rows"}

NextOne ==
    \/ \E r \in Reqs : QueryReceive(r, {"ok"}) /\ OneRequest(r)
    \/ \E r \in Reqs : QueryGenerate(r) /\ OneRequest(r)
    \/ \E r \in Reqs : QueryExecute(r) /\ OneRequest(r)
    \/ \E r \in Reqs : QueryStore(r, {"ok"})
    \/ \E r \in Reqs : ChatReceive(r, {"ok"}, {NoHistory}) /\ OneRequest(r)
    \/ \E r \in Reqs : ChatCacheCheck(r, {"ok"})
    \/ \E r \in Reqs : ChatGenerate(r)
    \/ \E r \in Reqs : ChatStore(r, {"ok"})
    \/ ClearOne /\ (one'.status = 200 => one'.question \in OneQuestions)

SpecOne == Init /\ [][NextOne]_vars

(***************************************************************************)
(* The claims.                                                             *)
(***************************************************************************)
Finished(r) == req[r].pc = "done"

CallsOf(r, op) == {i \in 1..Len(req[r].calls) : req[r].calls[i].op = op}

HasCall(r, op) == CallsOf(r, op) # {}

\* C1: in the analytics handler executeSQL is called, and a response is
\* written to the cache, only with an sql text that validateSQL accepted
\* earlier in the same request; a request in which validateSQL rejected the
\* generated sql ends with status 500 and never calls executeSQL.
C1_OnlyValidatedSqlRuns ==
    \A r \in Reqs : req[r].route = "query" =>
        /\ \A i \in CallsOf(r, "executeSQL") : req[r].calls[i].arg \in req[r].validated
        /\ \A i \in CallsOf(r, "setCachedData") :
              req[r].calls[i].arg.value.sql \in req[r].validated
        /\ req[r].pc \in {"execute", "store"} => req[r].sqlResult.sql \in req[r].validated
        /\ req[r].rejected # {} =>
              Finished(r) /\ req[r].status = 500 /\ ~HasCall(r, "executeSQL")

C1_Witness ==
    \E r1, r2 \in Reqs :
        /\ req[r1].route = "query" /\ req[r1].rejected # {} /\ req[r1].status = 500
        /\ req[r2].route = "query" /\ HasCall(r2, "executeSQL")
        /\ HasCall(r2, "setCachedData") /\ req[r2].status = 200

\* C2: with a healthy cache, a successful analytics request for a question
\* that is no greeting answers cached:false, and the request with the same
\* question that checks the cache right after it (no write, delete or expiry
\* in between) answers cached:true with the same sql, explanation, data,
\* columns and visualizationType.
PayloadFields == {"sql", "explanation", "data", "columns", "visualizationType"}

C2_Follows(r1, r2) ==
    /\ r1 # r2
    /\ req[r1].route = "query" /\ req[r2].route = "query"
    /\ req[r1].question = req[r2].question
    /\ ~greetingRegex(trim(req[r1].question))
    /\ Finished(r1) /\ req[r1].status = 200 /\ HasCall(r1, "executeSQL")
    /\ \A i \in CallsOf(r1, "setCachedData") : req[r1].calls[i].io = "ok"
    /\ HasCall(r2, "getCachedData")
    /\ \A i \in CallsOf(r2, "getCachedData") : req[r2].calls[i].io = "ok"
    /\ req[r2].sawEvent = [op |-> "set", by |-> r1]

C2_SecondCallCached ==
    \A r1, r2 \in Reqs : C2_Follows(r1, r2) =>
        /\ req[r1].body.cached = FALSE
        /\ Finished(r2) /\ req[r2].status = 200
        /\ req[r2].body.cached = TRUE
        /\ \A f \in PayloadFields : req[r2].body[f] = req[r1].body[f]

C2_Witness ==
    \E r1, r2 \in Reqs :
        C2_Follows(r1, r2) /\ Finished(r2) /\ req[r2].body.cached = TRUE
                           /\ req[r2].body.data # <<>>

\* C3: an analytics request whose cache check finds an entry answers 200
\* with the cached payload and cached:true, and makes no other call: no
\* text generation, no executeSQL, no cache write.
C3_HitShortCircuits ==
    \A r \in Reqs : \A i \in CallsOf(r, "getCachedData") :
        (req[r].route = "query" /\ req[r].calls[i].hit) =>
            LET payload == req[r].calls[i].arg.value
            IN  /\ Finished(r) /\ req[r].status = 200
                /\ Len(req[r].calls) = 1
                /\ DOMAIN req[r].body = DOMAIN payload \cup {"cached"}
                /\ req[r].body.cached = TRUE
                /\ \A f \in DOMAIN payload \ {"cached"} : req[r].body[f] = payload[f]

C3_Witness ==
    \E r \in Reqs :
        /\ req[r].route = "query" /\ Finished(r)
        /\ \E i \in CallsOf(r, "getCachedData") :
              req[r].calls[i].hit /\ req[r].calls[i].arg.value.sql # <<>>

\* C4: a failing cache operation never reaches the client: after a cache
\* read that threw, either handler goes on as on a miss; a cache write that
\* threw leaves the 200 answer with cached:false; and every 500 answer comes
\* from the text generation or from executeSQL.
C4_CacheFailuresSwallowed ==
    \A r \in Reqs :
        /\ \A i \in CallsOf(r, "getCachedData") : req[r].calls[i].io = "throw" =>
              /\ ~req[r].calls[i].hit
              /\ i = Len(req[r].calls) =>
                    req[r].pc \in {"generate", "chatCheck", "chatGenerate"}
        /\ \A i \in CallsOf(r, "setCachedData") : req[r].calls[i].io = "throw" =>
              /\ Finished(r) /\ req[r].status = 200
              /\ req[r].body.cached = FALSE
        /\ (Finished(r) /\ req[r].status = 500) =>
              /\ req[r].calls # <<>>
              /\ req[r].calls[Len(req[r].calls)].op \in {"textGeneration", "executeSQL"}

C4_Witness ==
    \E r1, r2 \in Reqs :
        /\ req[r1].route = "query" /\ req[r2].route = "chat"
        /\ \A r \in {r1, r2} :
              /\ Finished(r) /\ req[r].status = 200 /\ HasCall(r, "textGeneration")
              /\ \A i \in CallsOf(r, "getCachedData") : req[r].calls[i].io = "throw"
              /\ \E i \in CallsOf(r, "setCachedData") : req[r].calls[i].io = "throw"

\* C5: over a store that ignores every call, every request of either
\* handler can always take its next step, never answers cached:true, and
\* ends with the status and the answer that the same request, given the same
\* answers by the text generation and the database, gets on a miss over a
\* healthy store.
CacheOps == {"getCachedData", "setCachedData"}

AllNoop(r) ==
    \A i \in 1..Len(req[r].calls) :
        req[r].calls[i].op \in CacheOps => req[r].calls[i].io = "noop"

HealthyMiss(r) ==
    \A i \in 1..Len(req[r].calls) :
        req[r].calls[i].op \in CacheOps => req[r].calls[i].io = "ok" /\ ~req[r].calls[i].hit

SameRequest(r1, r2) ==
    /\ req[r1].route = req[r2].route /\ req[r1].qtype = req[r2].qtype
    /\ req[r1].question = req[r2].question
    /\ req[r1].includeData = req[r2].includeData
    /\ req[r1].llm = req[r2].llm /\ req[r1].rpc = req[r2].rpc

\* Equal answers, but for the measured executionTime.
SameAnswer(b1, b2) ==
    /\ DOMAIN b1 = DOMAIN b2
    /\ \A f \in DOMAIN b1 \ {"executionTime"} : b1[f] = b2[f]

\* Request r, being at the step pc, can take it.
CanStep(r) ==
    /\ req[r].pc = "generate" => ENABLED QueryGenerate(r)
    /\ req[r].pc = "execute" => ENABLED QueryExecute(r)
    /\ req[r].pc = "store" => ENABLED QueryStore(r, NoopIO)
    /\ req[r].pc = "chatCheck" => ENABLED ChatCacheCheck(r, NoopIO)
    /\ req[r].pc = "chatGenerate" => ENABLED ChatGenerate(r)
    /\ req[r].pc = "chatStore" => ENABLED ChatStore(r, NoopIO)
    /\ req[r].pc \in {"generate", "execute", "store", "chatCheck", "chatGenerate",
                      "chatStore", "idle", "done"}

C5_CorrectWithoutCache ==
    /\ \A r \in Reqs : CanStep(r)
    /\ \A r \in Reqs : (Finished(r) /\ AllNoop(r) /\ "cached" \in DOMAIN req[r].body) =>
          req[r].body.cached = FALSE
    /\ \A r1, r2 \in Reqs :
          (/\ Finished(r1) /\ Finished(r2) /\ SameRequest(r1, r2)
           /\ AllNoop(r1) /\ HealthyMiss(r2)) =>
              /\ req[r1].status = req[r2].status
              /\ SameAnswer(req[r1].body, req[r2].body)

C5_Witness ==
    \E r1, r2 \in Reqs :
        /\ r1 # r2 /\ Finished(r1) /\ Finished(r2) /\ SameRequest(r1, r2)
        /\ AllNoop(r1) /\ HealthyMiss(r2)
        /\ HasCall(r1, "setCachedData") /\ HasCall(r2, "setCachedData")
        /\ req[r1].route = "query" /\ req[r1].body.data # <<>>

\* C6: within one analytics request the text generation is called only
\* after a cache check that found nothing, executeSQL only after the
\* generator was called, and the text generation never after executeSQL.
C6_StepsOrdered ==
    \A r \in Reqs : req[r].route = "query" =>
        /\ \A i \in CallsOf(r, "textGeneration") :
              \E j \in CallsOf(r, "getCachedData") : j < i /\ ~req[r].calls[j].hit
        /\ \A i \in CallsOf(r, "executeSQL") :
              /\ \E j \in CallsOf(r, "textGeneration") : j < i
              /\ \E j \in CallsOf(r, "generateSQLFromQuestion") : j < i
              /\ \A j \in CallsOf(r, "textGeneration") \cup
                          CallsOf(r, "generateSQLFromQuestion") : j < i

C6_Witness ==
    \E r \in Reqs :
        /\ req[r].route = "query" /\ Finished(r)
        /\ HasCall(r, "getCachedData") /\ HasCall(r, "textGeneration")
        /\ HasCall(r, "executeSQL")

\* C7: every sql text that contains the fragment "; DROP TABLE x" is
\* rejected by validateSQL, wherever the fragment occurs and whatever
\* comments the text contains.
DropFragment == <<";", " ", "DROP TABLE x">>

Contains(s, frag) ==
    \E i \in 1..(Len(s) - Len(frag) + 1) : SubSeq(s, i, i + Len(frag) - 1) = frag

C7_DropAlwaysRejected ==
    (vDone /\ Contains(vIn, DropFragment)) => ~vOut.valid

\* C8: validateSQL accepts a statement whose lower-cased, comment-stripped,
\* trimmed text starts with "with" and matches no dangerous pattern.
Stripped(sql) == trim(stripBlockComments(stripLineComments(toLowerCase(trim(sql)))))

MatchesDangerous(s) ==
    MatchesSeparatorWrite(s) \/ MatchesUnionSelect(s) \/ MatchesExec(s)

C8_WithAccepted ==
    (/\ vDone
     /\ startsWith(Stripped(vIn), "with")
     /\ ~MatchesDangerous(Stripped(vIn))) => vOut.valid


\* C9 (as stated): when the generated sql fails the safety checks the
\* analytics handler answers 500 and the response body includes the
\* offending sql text.
BodyIncludes(body, text) ==
    \/ "sql" \in DOMAIN body /\ body.sql = text
    \/ "message" \in DOMAIN body /\ \E i \in 1..Len(body.message) : body.message[i] = text

C9_BodyIncludesSql ==
    \A r \in Reqs : (req[r].route = "query" /\ req[r].rejected # {}) =>
        /\ Finished(r) /\ req[r].status = 500
        /\ \A t \in req[r].rejected : BodyIncludes(req[r].body, t)

\* C9 (amended): when the generated sql fails the safety checks the
\* analytics handler answers 500 with exactly an error, a message that
\* names the violated rule, and a hint; the offending sql text is in no
\* field of the body.
C9_BodyNamesRuleOnly ==
    \A r \in Reqs : (req[r].route = "query" /\ req[r].rejected # {}) =>
        /\ Finished(r) /\ req[r].status = 500
        /\ DOMAIN req[r].body = {"error", "message", "hint"}
        /\ req[r].body.error = "Failed to process your query"
        /\ \A t \in req[r].rejected :
              /\ req[r].body.message =
                    <<<<"Failed to generate SQL query: ">>, <<validateSQL(t).error>>>>
              /\ ~BodyIncludes(req[r].body, t)

C9_Witness ==
    \E r \in Reqs :
        /\ req[r].route = "query" /\ Finished(r) /\ req[r].status = 500
        /\ <<"SELECT", ";", " ", "DROP TABLE x">> \in req[r].rejected

\* C10 (as stated): for every question q the query key of q equals the query
\* key of q.trim().toUpperCase().
C10_KeyIgnoresCase ==
    kDone => (kOut[1] = kOut[2] /\ kOut[3] = kOut[4])

\* C10 (amended): for every question q of ASCII characters the query key of
\* q equals the query key of q.trim().toUpperCase(); for every question the
\* key is "query:" followed by the hash of the trimmed, lower-cased question,
\* in the analytics route and in the chat route alike.
IsAscii(q) == \A i \in 1..Len(q) : q[i] \in AsciiChunks

C10_KeyIgnoresAsciiCase ==
    kDone =>
        /\ IsAscii(kIn) => (kOut[1] = kOut[2] /\ kOut[3] = kOut[4])
        /\ kOut[1] = <<"query:", sha256hex(toLowerCase(trim(kIn)))>>
        /\ kOut[3] = kOut[1]

C10_Witness ==
    /\ kDone /\ IsAscii(kIn)
    /\ kIn # toUpperCase(trim(kIn)) /\ trim(kIn) # kIn /\ trim(kIn) # <<>>
    /\ kOut[1] = kOut[2]

\* C11 (as stated): for every prompt and every two different contexts the
\* chat keys differ.
C11_ContextChangesKey ==
    (uDone /\ uIn.c1 # uIn.c2) => uOut[1] # uOut[2]

\* C11 (amended): for every prompt and every two different contexts that
\* are not both empty (left out, or the empty string) the chat keys differ;
\* the chat handler's key with includeData differs from its key without.
IsEmptyContext(c) == ~c.given \/ c.text = <<>>

C11_NonEmptyContextChangesKey ==
    uDone =>
        /\ (uIn.c1 # uIn.c2 /\ ~(IsEmptyContext(uIn.c1) /\ IsEmptyContext(uIn.c2))) =>
              uOut[1] # uOut[2]
        /\ (IsEmptyContext(uIn.c1) /\ IsEmptyContext(uIn.c2)) => uOut[1] = uOut[2]
        /\ uOut[3] # uOut[4]

C11_Witness ==
    /\ uDone /\ uIn.c1 = Some(<<"ctx">>) /\ uIn.c2 = Some(<<"ctx", ":">>)
    /\ uOut[1] # uOut[2] /\ uOut[3] # uOut[4]

\* C12: over a healthy store, setCachedData(key, v) followed by
\* getCachedData(key) returns a value equal to v, for every key and every
\* JSON-serializable value v.
C12_RoundTrip ==
    uDone => uOut.value = uIn.value

\* C13: for every question that, trimmed and with case ignored, is exactly
\* one greeting token, generateSQLFromQuestion returns an empty sql and
\* does not call the text-generation service.
IsGreetingToken(q) ==
    \E w \in GreetingWords : toLowerCase(trim(q)) = <<w>>

C13_GreetingShortCircuits ==
    (uDone /\ IsGreetingToken(uIn.question)) =>
        /\ ~uOut.threw
        /\ uOut.sql = <<>>
        /\ ~uOut.llmCalled

C13_Witness ==
    /\ uDone /\ uIn.question = <<" ", "HI", " ">>
    /\ uIn.llm.kind = "json" /\ uIn.llm.sql = <<"SELECT">>
    /\ uOut.sql = <<>> /\ ~uOut.llmCalled

\* C14 (as stated): in the chat handler an entry under the analytics key
\* satisfies the request (a summary, cached:true) only if it carries
\* non-empty data; when the entry is absent or its data is empty the handler
\* goes on to read the chat key.
AnalyticsLookup(r) ==
    /\ req[r].route = "chat" /\ req[r].calls # <<>>
    /\ req[r].calls[1].op = "getCachedData"

SatisfiedByAnalytics(r) ==
    /\ Finished(r) /\ Len(req[r].calls) = 1
    /\ req[r].status = 200 /\ req[r].body.cached = TRUE

GoesOnToChatKey(r) ==
    /\ Len(req[r].calls) = 1 => req[r].pc = "chatCheck"
    /\ Len(req[r].calls) > 1 =>
          /\ req[r].calls[2].op = "getCachedData"
          /\ req[r].calls[2].arg.key =
                generateChatCacheKey(req[r].question, contextTag(req[r].includeData))

HasRows(v) == v # Null /\ "data" \in DOMAIN v /\ v.data # <<>>

C14_OnlyNonEmptyData ==
    \A r \in Reqs : AnalyticsLookup(r) =>
        LET v == req[r].calls[1].arg.value
        IN  /\ SatisfiedByAnalytics(r) => HasRows(v)
            /\ ~HasRows(v) => GoesOnToChatKey(r)

\* C14 (amended): in the chat handler an entry under the analytics key
\* satisfies the request (a summary, cached:true) exactly if it carries a
\* data field, empty or not: for empty data the summary says that nothing
\* was found; only when there is no such entry does the handler go on to
\* read the chat key.
HasDataField(v) == v # Null /\ "data" \in DOMAIN v

C14_DataFieldSatisfies ==
    \A r \in Reqs : AnalyticsLookup(r) =>
        LET v == req[r].calls[1].arg.value
        IN  /\ req[r].calls[1].arg.key = generateQueryCacheKey(req[r].question)
            /\ HasDataField(v) =>
                  /\ SatisfiedByAnalytics(r)
                  /\ req[r].body.response.text[1] = "no data" <=> v.data = <<>>
                  /\ req[r].body.response.text[3] = v.data
            /\ ~HasDataField(v) => ~SatisfiedByAnalytics(r) /\ GoesOnToChatKey(r)

C14_Witness ==
    \E r \in Reqs :
        /\ AnalyticsLookup(r) /\ SatisfiedByAnalytics(r)
        /\ req[r].calls[1].arg.value.sql # <<>>
        /\ req[r].calls[1].arg.value.data = <<>>

\* C15: the chat handler reads the analytics key before the chat key; when
\* the analytics look-up does not satisfy the request and the chat key has
\* an entry, the answer is that entry with cached:true, and the request
\* makes no text-generation call, no database call and no cache write.
C15_ChatKeyHit ==
    \A r \in Reqs : req[r].route = "chat" =>
        \A i \in CallsOf(r, "getCachedData") :
            req[r].calls[i].arg.key = req[r].cacheKey =>
                /\ i = 2
                /\ req[r].calls[1].op = "getCachedData"
                /\ req[r].calls[1].arg.key = generateQueryCacheKey(req[r].question)
                /\ ~HasDataField(req[r].calls[1].arg.value)
                /\ req[r].calls[i].arg.value # Null =>
                      /\ Finished(r) /\ req[r].status = 200
                      /\ req[r].body = [response |-> req[r].calls[i].arg.value,
                                        cached |-> TRUE]
                      /\ Len(req[r].calls) = 2

C15_Witness ==
    \E r \in Reqs :
        /\ req[r].route = "chat" /\ Finished(r) /\ Len(req[r].calls) = 2
        /\ req[r].calls[2].op = "getCachedData"
        /\ req[r].calls[2].arg.value = [text |-> <<"an answer">>]
        /\ req[r].body.cached = TRUE

\* C16: when executeSQL fails in the analytics handler, because the
\* procedure answers with an error or because the call itself fails, the
\* answer is 500 and its body carries the failing sql, the underlying
\* message and the fixed hint.
ExecuteFailed(r) ==
    /\ req[r].route = "query" /\ HasCall(r, "executeSQL")
    /\ req[r].rpc.kind \in {"error", "throw"}

C16_ExecuteFailureBody ==
    \A r \in Reqs : ExecuteFailed(r) =>
        /\ Finished(r) /\ req[r].status = 500
        /\ {"error", "sql", "message", "hint"} \subseteq DOMAIN req[r].body
        /\ req[r].body.error = "Failed to execute query"
        /\ req[r].body.sql = req[r].calls[Len(req[r].calls)].arg
        /\ req[r].body.sql = req[r].sqlResult.sql /\ req[r].body.sql # <<>>
        /\ req[r].body.message =
              (IF req[r].rpc.kind = "error"
               THEN <<<<"SQL execution failed: ">>, <<"database error">>>>
               ELSE <<<<"transport error">>>>)
        /\ req[r].body.hint =
              "Make sure the execute_sql RPC function is set up in Supabase. See db/rpc-function.sql"
        /\ ~HasCall(r, "setCachedData")

C16_Witness ==
    \E r1, r2 \in Reqs :
        /\ ExecuteFailed(r1) /\ req[r1].rpc.kind = "error" /\ req[r1].status = 500
        /\ ExecuteFailed(r2) /\ req[r2].rpc.kind = "throw" /\ req[r2].status = 500

\* C20: the analytics and the chat handler answer a request whose question
\* is missing, empty or no string with 400 and the body {error: "Question
\* is required and must be a string"}, and make no cache, text-generation
\* or database call for it.
QuestionRejected(r) ==
    /\ req[r].route \in {"query", "chat"}
    /\ req[r].qtype # "string" \/ req[r].question = <<>>

C20_BadRequest ==
    \A r \in Reqs : QuestionRejected(r) =>
        /\ Finished(r) /\ req[r].status = 400
        /\ req[r].body = [error |-> "Question is required and must be a string"]
        /\ req[r].calls = <<>>

C20_Witness ==
    \E r1, r2 \in Reqs :
        /\ req[r1].route = "query" /\ req[r1].qtype = "undefined" /\ req[r1].status = 400
        /\ req[r2].route = "chat" /\ req[r2].qtype = "string" /\ req[r2].question = <<>>
        /\ req[r2].status = 400

\* C19: executeSQL trims its input and removes one trailing ";"; if more
\* than one non-blank ";"-separated statement then remains, the text sent to
\* the procedure is the first of them alone, with no ";" and none of the
\* later statements in it; otherwise it is the trimmed text itself.
WithoutTerminator(sql) ==
    LET t == trim(sql)
    IN  IF t # <<>> /\ t[Len(t)] = ";" THEN trim(SubSeq(t, 1, Len(t) - 1)) ELSE t

IsBlank(t) == \A i \in 1..Len(t) : t[i] = " "

\* The non-blank pieces that the ";" of s separate, in order.
Pieces(s) ==
    LET cuts == <<0>> \o SelectSeq([i \in 1..Len(s) |-> IF s[i] = ";" THEN i ELSE 0],
                                   LAMBDA i : i # 0) \o <<Len(s) + 1>>
        all == [k \in 1..(Len(cuts) - 1) |-> SubSeq(s, cuts[k] + 1, cuts[k + 1] - 1)]
    IN  SelectSeq(all, LAMBDA t : ~IsBlank(t))

C19_FirstStatementOnly ==
    uDone =>
        LET s == WithoutTerminator(uIn.sql)
        IN  /\ Len(Pieces(s)) > 1 =>
                  /\ uOut.query_text = trim(Pieces(s)[1])
                  /\ \A i \in 1..Len(uOut.query_text) : uOut.query_text[i] # ";"
            /\ Len(Pieces(s)) <= 1 => uOut.query_text = s

C19_Witness ==
    /\ uDone /\ uIn.sql = <<"SELECT", ";", "DROP TABLE x", ";">>
    /\ uOut.query_text = <<"SELECT">>

\* C17: clear-all scans "query:*" and then "chat:*", each with a cursor that
\* starts at 0; it deletes every batch the store returns and scans again
\* with the returned cursor until that cursor is 0; as long as no call to
\* the store fails, it answers 200 with a deletedCount that is the number of
\* keys in the batches it deleted, which is the number of entries it removed
\* when no entry left the store by itself meanwhile; and with a store whose
\* cursor comes back to 0 again and again, every request gets its answer.
NothingExpired == clr.start \ DOMAIN cache = clr.removed

C17_ScanLoop ==
    /\ \A p \in 1..Len(Patterns) : clr.scans[p].first \in {-1, 0}
    /\ clr.scans[2].first # -1 => clr.scans[1].first = 0
    /\ clr.pc = "scan" =>
          /\ clr.scans[clr.pattern].first = -1 => clr.scanCursor = 0
          /\ (clr.scans[clr.pattern].first # -1 /\ ~clr.failed) =>
                /\ clr.scanCursor = clr.scans[clr.pattern].lastOut
                /\ clr.scanCursor # 0
    /\ ~clr.failed =>
          /\ clr.pattern = 2 => clr.scans[1].lastOut = 0
          /\ clr.pc = "del" => clr.returned = clr.handedKeys \cup clr.keys
          /\ clr.pc \in {"scan", "done"} => clr.returned = clr.handedKeys
          /\ clr.pc = "done" =>
                /\ clr.scans[1].lastOut = 0 /\ clr.scans[2].lastOut = 0
                /\ clr.status = 200
                /\ clr.body.deletedCount = clr.handed
                /\ clr.handed = Cardinality(clr.handedKeys)
                /\ NothingExpired => clr.body.deletedCount = Cardinality(clr.removed)

MissedAndWrote(r) ==
    /\ req[r].route = "query" /\ Finished(r)
    /\ \E i \in CallsOf(r, "getCachedData") : ~req[r].calls[i].hit
    /\ \E i \in CallsOf(r, "setCachedData") : req[r].calls[i].io = "ok"

C21_NoMutualExclusion ==
    \A r1, r2 \in Reqs :
        (r1 # r2 /\ MissedAndWrote(r1) /\ MissedAndWrote(r2)
                 /\ req[r1].question = req[r2].question) =>
            /\ \A r \in {r1, r2} :
                  /\ HasCall(r, "textGeneration") /\ HasCall(r, "executeSQL")
                  /\ req[r].status = 200 /\ req[r].body.cached = FALSE
                  /\ \A i \in CallsOf(r, "setCachedData") :
                        /\ req[r].calls[i].arg.key = generateCacheKey(req[r1].question)
                        /\ req[r].calls[i].arg.value = req[r].body
            /\ lastCacheEvent.op = "set" =>
                  /\ generateCacheKey(req[r1].question) \in DOMAIN cache
                  /\ cache[generateCacheKey(req[r1].question)].json = req[lastCacheEvent.by].body

\* Both requests read the cache before any write, and their answers differ.
C21_Witness ==
    /\ MissedAndWrote("r1") /\ MissedAndWrote("r2")
    /\ req["r1"].question = req["r2"].question
    /\ req["r1"].sawEvent = NoEvent /\ req["r2"].sawEvent = NoEvent
    /\ req["r1"].body # req["r2"].body
    /\ lastCacheEvent = [op |-> "set", by |-> "r2"]
    /\ cache[req["r2"].cacheKey].json = req["r2"].body

\* C22: every cache write of the analytics and the chat handler asks for a
\* time to live of 3600 seconds; and a handler answers cached:true only from
\* a read that found an entry whose key was written less than 3600 seconds
\* before the read, with no delete of the key after that write.
AnsweredCached(r) ==
    Finished(r) /\ "cached" \in DOMAIN req[r].body /\ req[r].body.cached = TRUE

C22_TtlIsAnHour ==
    /\ \A r \in Reqs : \A i \in CallsOf(r, "setCachedData") : req[r].calls[i].arg.ttl = 3600
    /\ \A k \in DOMAIN cache : cache[k].ttl > 0 /\ cache[k].ttl <= 3600
    /\ \A r \in Reqs : \A i \in CallsOf(r, "getCachedData") :
          req[r].calls[i].hit =>
              /\ req[r].calls[i].arg.since # NoWrite
              /\ req[r].calls[i].arg.since <= req[r].calls[i].arg.at
              /\ req[r].calls[i].arg.at - req[r].calls[i].arg.since < 3600
    /\ \A r \in Reqs : AnsweredCached(r) =>
          /\ req[r].calls[Len(req[r].calls)].op = "getCachedData"
          /\ req[r].calls[Len(req[r].calls)].hit

\* An answer cached:true from an entry written 3599 seconds earlier; the
\* clear-one request deleted the key before that write.
C22_Witness ==
    \E r \in Reqs :
        /\ AnsweredCached(r)
        /\ req[r].calls[Len(req[r].calls)].arg.since = 0
        /\ req[r].calls[Len(req[r].calls)].arg.at = 3599
        /\ one.pc = "done" /\ one.status = 200 /\ one.at = 0
        /\ one.cacheKey = req[r].calls[Len(req[r].calls)].arg.key

\* C23: when the clear-one handler, asked with mode "query" for a question
\* equal to q up to case and surrounding blanks, has had its delete served
\* by the store, and nothing has changed the store since, an analytics
\* request for q reads a miss, calls the generator again and never answers
\* cached:true.
EqualUpToCase(q1, q2) ==
    /\ Len(trim(q1)) = Len(trim(q2))
    /\ \A i \in 1..Len(trim(q1)) : LowerChunk(trim(q1)[i]) = LowerChunk(trim(q2)[i])

ClearedBefore(r, modes) ==
    /\ one.pc = "done" /\ one.status = 200 /\ one.mode \in modes /\ one.io = "ok"
    /\ req[r].qtype = "string" /\ EqualUpToCase(one.question, req[r].question)
    /\ HasCall(r, "getCachedData")
    /\ req[r].sawEvent = [op |-> "del", by |-> "one"]

C24_BothChatKeysGone ==
    (/\ one.pc = "done" /\ one.status = 200 /\ one.mode = "chat" /\ one.io = "ok"
     /\ lastCacheEvent = [op |-> "del", by |-> "one"]) =>
        \A includeData \in BOOLEAN :
            generateChatCacheKey(one.question, contextTag(includeData)) \notin DOMAIN cache

\* C25: every value the analytics handler writes under a "query:" key has
\* an sql text that is not empty and that validateSQL accepted in the same
\* request, carries the rows of a successful executeSQL call of that request
\* on that sql, and has cached = false; conversational answers and error
\* answers are never written.
StorablePayload(v) ==
    /\ DOMAIN v = PayloadFields \cup {"cached", "executionTime"}
    /\ trim(v.sql) # <<>>
    /\ validateSQL(v.sql).valid
    /\ v.cached = FALSE

C25_OnlyExecutedResultsStored ==
    /\ \A r \in Reqs : req[r].route = "query" =>
          /\ \A i \in CallsOf(r, "setCachedData") :
                LET v == req[r].calls[i].arg.value
                IN  /\ req[r].calls[i].arg.key[1] = "query:"
                    /\ StorablePayload(v)
                    /\ v.sql \in req[r].validated
                    /\ \E j \in CallsOf(r, "executeSQL") :
                          /\ j < i
                          /\ req[r].calls[j].io \notin {"error", "throw", "badtext"}
                          /\ req[r].calls[j].arg = v.sql
                          /\ v.data = req[r].rpc.data
          /\ (Finished(r) /\ (req[r].status # 200 \/ "isConversational" \in DOMAIN req[r].body))
                => ~HasCall(r, "setCachedData")
    /\ \A k \in DOMAIN cache : k[1] = "query:" => StorablePayload(cache[k].json)

C25_Witness ==
    \E r1, r2 \in Reqs :
        /\ req[r1].route = "query" /\ Finished(r1) /\ req[r1].status = 200
        /\ "isConversational" \in DOMAIN req[r1].body /\ HasCall(r1, "textGeneration")
        /\ req[r2].route = "query" /\ Finished(r2)
        /\ \E i \in CallsOf(r2, "setCachedData") : req[r2].calls[i].io = "ok"
        /\ req[r2].cacheKey \in DOMAIN cache
        /\ cache[req[r2].cacheKey].json.data # <<>>

\* C26 (as stated): the query_text that executeSQL hands to the procedure
\* contains no ";", whatever the sql.
C26_NoSeparator ==
    uDone => \A i \in 1..Len(uOut.query_text) : uOut.query_text[i] # ";"

\* C26 (amended): the query_text that executeSQL hands to the procedure has
\* at most one statement that is not blank; it contains a ";" only when the
\* sql, without its one trailing ";", had at most one such statement and
\* had a ";" itself.
C26_AtMostOneStatement ==
    uDone =>
        /\ Len(Pieces(uOut.query_text)) <= 1
        /\ (\E i \in 1..Len(uOut.query_text) : uOut.query_text[i] = ";") =>
              /\ Len(Pieces(WithoutTerminator(uIn.sql))) <= 1
              /\ \E i \in 1..Len(WithoutTerminator(uIn.sql)) :
                    WithoutTerminator(uIn.sql)[i] = ";"

C26_Witness ==
    /\ uDone /\ uIn.sql = <<"SELECT", ";", ";">>
    /\ uOut.query_text = <<"SELECT", ";">>

\* C27: a request of either handler whose question is a greeting token
\* makes no cache read and no cache write.
C27_GreetingLeavesCache ==
    \A r \in Reqs : (req[r].qtype = "string" /\ IsGreetingToken(req[r].question)) =>
        /\ ~HasCall(r, "getCachedData")
        /\ ~HasCall(r, "setCachedData")

\* C28: generateChatCacheKey gives different keys to different pairs of a
\* prompt and a context, a context that is left out included.
C28_ChatKeyInjective ==
    (uDone /\ <<uIn.p1, uIn.c1>> # <<uIn.p2, uIn.c2>>) => uOut[1] # uOut[2]

\* C29: two chat requests with the same question, no greeting, and the same
\* includeData but different histories derive and read the same keys; when
\* the first has generated and cached its answer and the second reads the
\* healthy cache with nothing changed in between, the second, unless an
\* analytics answer satisfies it first, is answered with the first one's
\* text and cached:true, and makes no text-generation call.
C29_Follows(r1, r2) ==
    /\ r1 # r2
    /\ req[r1].route = "chat" /\ req[r2].route = "chat"
    /\ req[r1].qtype = "string" /\ req[r2].qtype = "string"
    /\ req[r1].question = req[r2].question /\ ~IsGreetingToken(req[r1].question)
    /\ req[r1].includeData = req[r2].includeData
    /\ req[r1].history # req[r2].history
    /\ Finished(r1) /\ req[r1].status = 200 /\ req[r1].body.cached = FALSE
    /\ \A i \in CallsOf(r1, "setCachedData") : req[r1].calls[i].io = "ok"
    /\ HasCall(r2, "getCachedData")
    /\ \A i \in CallsOf(r2, "getCachedData") : req[r2].calls[i].io = "ok"
    /\ ~hasQueryData(req[r2].calls[1].arg.value)
    /\ req[r2].sawEvent = [op |-> "set", by |-> r1]
    /\ lastCacheEvent = [op |-> "set", by |-> r1]

C29_HistoryNotInKey ==
    \A r1, r2 \in Reqs : C29_Follows(r1, r2) =>
        /\ req[r2].cacheKey = req[r1].cacheKey
        /\ \A i \in CallsOf(r2, "getCachedData") :
              req[r2].calls[i].arg.key = req[r1].calls[i].arg.key
        /\ Len(req[r2].calls) > 1 =>
              /\ Finished(r2) /\ req[r2].status = 200
              /\ req[r2].body = [response |-> req[r1].body.response, cached |-> TRUE]
              /\ ~HasCall(r2, "textGeneration")

C29_Witness ==
    \E r1, r2 \in Reqs :
        /\ C29_Follows(r1, r2) /\ Finished(r2)
        /\ req[r1].history # NoHistory /\ req[r2].history # NoHistory
        /\ req[r1].includeData
        /\ \E i \in CallsOf(r1, "textGeneration") :
              req[r1].calls[i].arg.context =
                  historyText(req[r1].history) \o <<"\n\n", "sample rows">>
        /\ req[r2].body.cached = TRUE

\* C30: a request of either handler that ends with status 400 or 500 has
\* called neither setCachedData nor a delete: it has not changed the cache.
C30_FailuresLeaveCache ==
    \A r \in Reqs : (Finished(r) /\ req[r].status \in {400, 500}) =>
        /\ \A i \in 1..Len(req[r].calls) :
              req[r].calls[i].op \in {"getCachedData", "generateSQLFromQuestion",
                                      "textGeneration", "executeSQL", "sampleRows"}
        /\ lastCacheEvent.by # r

\* One request rejected with 400, one failed with 500 after a cache miss,
\* over a store that holds nothing.
C30_Witness ==
    \E r1, r2 \in Reqs :
        /\ Finished(r1) /\ req[r1].status = 400
        /\ Finished(r2) /\ req[r2].status = 500 /\ req[r2].route = "chat"
        /\ HasCall(r2, "getCachedData") /\ HasCall(r2, "textGeneration")
        /\ cache = <<>> /\ written = <<>>

====
